---- MODULE Spec2Model ----
(***************************************************************************)
(* A model of the msks task orchestrator: the task lifecycle (Task.run,    *)
(* Task.restore, Task.reset, Task.set in src/msks/task.py), the tasks      *)
(* store (LocalTasksStore in src/msks/storage.py: startup, update, create, *)
(* dependencies, wait) and the files they share between processes          *)
(* (meta.json, .runlock).                                                  *)
(*                                                                         *)
(* Several orchestrator processes work on one task root.  Each process has *)
(* one store, whose Task objects cache the metadata they last loaded       *)
(* (Task._meta), one main thread (dependencies, restore, reset, set,       *)
(* create, update) and one runner thread (Task.run).  The per-task         *)
(* metadata lock (.meta/.lock) is never held across a blocking call, so a  *)
(* section under it is one action; the .runlock is held while the child    *)
(* process executes and is state.                                          *)
(***************************************************************************)
EXTENDS Integers, FiniteSets, Sequences, TLC

\* Bound: the generations of Task objects of one store that are told apart
\* are 0 .. MaxGen.  A rescan needs a number no live object carries.
MaxGen == 1

Tasks == {"A", "B", "C"}

Procs == {1, 2}

\* Threads that call run: 1 and 3 are threads of process 1, 2 of process 2.
Runners == {1, 2, 3}

ProcOf(r) == IF r = 3 THEN 1 ELSE r

None == "none"

Absent == "absent"


\* Task.dependencies: the keys of the dependency map of meta.json, in the
\* order the map holds them.  C needs a file of A and a file of B.
TaskDependencies(t) == IF t = "C" THEN <<"A", "B">> ELSE << >>

Range(seq) == {seq[i] : i \in 1..Len(seq)}

VARIABLES
  disk,      \* task -> the status in <root>/<task>/.meta/meta.json, or Absent
  lockfile,  \* task -> whether .meta/.runlock exists
  runlock,   \* task -> the holder of the flock on .meta/.runlock
  alive,     \* process -> whether it runs
  tasks,     \* process -> the keys of store._tasks
  meta,      \* process -> task -> the status in Task._meta of the store's object, or None
  gen,       \* process -> how many times the store replaced its Task objects
  changed,   \* process -> whether the store's watcher has changes to report
  pc,        \* runner -> where its Task.run invocation is
  rtask,     \* runner -> the task it runs
  rforce,    \* runner -> the force argument
  rdeps,     \* runner -> the dependencies argument: "empty" or "store"
  rgen,      \* runner -> the generation of the Task object it runs
  rres,      \* runner -> how its last run ended: "true", "false", "raise", or None
  dpc,       \* process -> where its dependencies() call is
  dtask,     \* process -> the task of the call
  dwait,     \* process -> the wait argument
  dres,      \* process -> what the call returned
  cres,      \* process -> its last create call: the task, exist_ok, the value returned
  order,     \* the tasks on disk, by the created time of their meta.json
  qopen,     \* process -> whether its TaskQueue has its _storage (not closed)
  qcand,     \* runner -> the tasks its get() got from query, in their order
  qres,      \* runner -> how its last get() ended: "task", "nil", "raise", or None
  hargs,     \* the arguments dict of the create call whose id is being computed
  hid,       \* the id that call computed, or NoId
  hprev,     \* the arguments and the id of the create call before it, or NoPrev
  tagfile,   \* tag name -> the task id in the file <root>/<tag>, or Absent
  tags,      \* process -> tag name -> the task of store._tags, or None
  gres,      \* process -> its last get call: the identifier, the value returned
  entries,   \* task -> the entries of its directory other than .meta
  wt,        \* process -> its wait call
  mux,       \* a Multiplexer, its sub-sinks and the call in progress
  log,       \* one _run_command: the child, the pipe, the FileOutput and output.txt
  steps,     \* a StepsExtractor handler and the lines pushed to it
  env,       \* one conda environment: its directory, the lock, the setup calls
  lk,        \* the locks of one task and its store: thread -> operation, step, locks held
  doc        \* the meta.json of one task, the cached copies and the clock

fileVars == <<disk, lockfile, runlock>>

storeVars == <<alive, tasks, meta, gen, changed>>

runVars == <<pc, rtask, rforce, rdeps, rgen, rres>>

depVars == <<dpc, dtask, dwait, dres, cres>>

queueVars == <<order, qopen, qcand, qres>>

hashVars == <<hargs, hid, hprev>>

sideVars == <<wt, mux, log, steps, env, lk, doc>>

auxVars == <<tagfile, tags, gres, entries, sideVars>>

coreVars == <<fileVars, storeVars, runVars, depVars, queueVars, hashVars, tagfile, tags, gres, entries>>

vars == <<disk, lockfile, runlock, alive, tasks, meta, gen, changed,
          pc, rtask, rforce, rdeps, rgen, rres, dpc, dtask, dwait, dres, cres,
          order, qopen, qcand, qres, hargs, hid, hprev,
          tagfile, tags, gres, entries, wt, mux, log, steps, env, lk, doc>>

NoHolder == [proc |-> 0, gen |-> 0, users |-> {}, leaked |-> FALSE]

NoResult == [kind |-> None, deps |-> << >>]

NoCall == [task |-> None, exist_ok |-> TRUE, res |-> None]

\* JSON values: a string, an integer, null, a list (items: the elements),
\* or a dict (items: the key-value pairs k, v in insertion order).
JStr(x) == [t |-> "str", s |-> x, n |-> 0, items |-> << >>]

JInt(x) == [t |-> "int", s |-> "", n |-> x, items |-> << >>]

JNone == [t |-> "null", s |-> "", n |-> 0, items |-> << >>]

JList(x) == [t |-> "list", s |-> "", n |-> 0, items |-> x]

JDict(x) == [t |-> "dict", s |-> "", n |-> 0, items |-> x]

NoId == [done |-> FALSE, raised |-> FALSE, sha1 |-> JNone]

NoPrev == [args |-> << >>, id |-> NoId]

IdleTask == "A"

\* The names given to tags.  The task ids are hexadecimal digests of one
\* length: here those of A and B start with "a", the one of C with "c", and
\* no id starts with another id or with "best" or "zz".
TagNames == {"a", "best", "c"}

Identifiers == Tasks \cup TagNames \cup {"zz"}

\* str.startswith, for a task id and an identifier.
StartsWith(t, prefix) ==
  \/ prefix = t
  \/ prefix = "a" /\ t \in {"A", "B"}
  \/ prefix = "c" /\ t = "C"

NoGet == [identifier |-> None, res |-> None]

\* Bound: a wait call is followed for MaxPolls polls of the watcher.
MaxPolls == 4

\* The timeout argument of wait and the time since its start, in units of
\* the 0.1 s it sleeps between two polls.
Timeouts == {-1, 0, 2}

NoWait == [pc |-> "idle", timeout |-> 0, elapsed |-> 0, polls |-> 0, saw |-> FALSE, res |-> None]

\* No thread is inside an operation and no lock is held; leak is the
\* process whose Task object kept the runlock after restore (0: none).
NoLocks == [op |-> [r \in Runners |-> None], pos |-> [r \in Runners |-> 0],
            held |-> [r \in Runners |-> << >>], leak |-> 0]

\* Bound: the clock (UTC) goes from 0 to MaxClock.
MaxClock == 2

\* No meta.json of the task yet.  file is the document in meta.json, with
\* has false when there is none and partial true between the open(.., "w")
\* of a write and its json.dump; cache is Task._meta of the store's object
\* of each process and known whether the task is in its catalog; up says
\* whether the process has its store and tz is the offset of its local
\* time; wr is the write in progress,
\* by whom and whether under the metadata lock; seen is what the last read
\* of the process got.
NoDoc ==
  LET nothing == [has |-> FALSE, status |-> None, created |-> 0, updated |-> 0, props |-> {}]
  IN  [file |-> nothing, partial |-> FALSE,
       cache |-> [p \in Procs |-> nothing], known |-> [p \in Procs |-> FALSE],
       up |-> [p \in Procs |-> FALSE], tz |-> [p \in Procs |-> 0], clock |-> 0,
       wr |-> [by |-> 0, locked |-> FALSE, content |-> nothing],
       seen |-> [p \in Procs |-> None]]

\* The value of offset and step that stands for Python's None.
NoStep == -1

\* A new handler of a StepsExtractor: _state, _data as the list of the
\* dict objects it refers to (cells holds one dict per object), the
\* snapshots given to the writer, and the lines pushed so far.
NoSteps == [offset |-> NoStep, step |-> NoStep, data |-> << >>, cells |-> << >>,
            emitted |-> << >>, lines |-> << >>]

(***************************************************************************)
(* Init: no orchestrator process runs.  The task root is as earlier        *)
(* invocations left it: some tasks were created and are pending, the       *)
(* others are not there (never created, or removed).                       *)
(***************************************************************************)
InitTasks ==
  /\ disk \in [Tasks -> {"pending", Absent}]
  /\ lockfile = [t \in Tasks |-> FALSE]
  /\ runlock = [t \in Tasks |-> NoHolder]
  /\ alive = [p \in Procs |-> FALSE]
  /\ tasks = [p \in Procs |-> {}]
  /\ meta = [p \in Procs |-> [t \in Tasks |-> None]]
  /\ gen = [p \in Procs |-> 0]
  /\ changed = [p \in Procs |-> FALSE]
  /\ pc = [r \in Runners |-> "idle"]
  /\ rtask = [r \in Runners |-> IdleTask]
  /\ rforce = [r \in Runners |-> FALSE]
  /\ rdeps = [r \in Runners |-> "empty"]
  /\ rgen = [r \in Runners |-> 0]
  /\ rres = [r \in Runners |-> None]
  /\ dpc = [p \in Procs |-> "idle"]
  /\ dtask = [p \in Procs |-> IdleTask]
  /\ dwait = [p \in Procs |-> FALSE]
  /\ dres = [p \in Procs |-> NoResult]
  /\ cres = [p \in Procs |-> NoCall]
  /\ order = SelectSeq(<<"A", "B", "C">>, LAMBDA t : disk[t] # Absent)
  /\ qopen = [p \in Procs |-> FALSE]
  /\ qcand = [r \in Runners |-> << >>]
  /\ qres = [r \in Runners |-> None]

\* No tag file, task directories with nothing but .meta, and none of the
\* other objects in use.
InitSide ==
  /\ tagfile = [g \in TagNames |-> Absent]
  /\ tags = [p \in Procs |-> [g \in TagNames |-> None]]
  /\ gres = [p \in Procs |-> NoGet]
  /\ wt = [p \in Procs |-> NoWait]
  \* A Multiplexer nobody has called: the items pushed to it, the calls of
  \* its sub-sinks (sink, line, whether it returned), the exceptions logged
  \* and whether a push raised to its caller.
  /\ mux = [pushed |-> << >>, calls |-> << >>, logged |-> 0, raised |-> FALSE]
  \* No child process yet: the bytes the child wrote, the bytes in the pipe,
  \* whether the FileOutput has its file open, the bytes of output.txt,
  \* and the bytes output.txt held when this run started.
  /\ log = [pc |-> "idle", child |-> "none", written |-> << >>, pipe |-> << >>,
            handle |-> FALSE, out |-> << >>, prev |-> << >>]
  /\ steps = NoSteps
  \* One conda environment before anybody set it up: its directory, the
  \* holder of the environments lock (0: nobody), and per caller of setup()
  \* where it is, its variable success and what its last call returned.
  /\ env = [dir |-> "absent", lock |-> 0,
            pc |-> [c \in Procs |-> "idle"],
            success |-> [c \in Procs |-> FALSE],
            res |-> [c \in Procs |-> None]]
  /\ lk = NoLocks
  /\ doc = NoDoc

InitAux == InitSide /\ entries = [t \in Tasks |-> {}]

Init == InitTasks /\ hargs = << >> /\ hid = NoId /\ hprev = NoPrev /\ InitAux

\* The task directories whose .meta/meta.json exists.
Present == {t \in Tasks : disk[t] # Absent}

\* Task.status: the status of Task._meta, which is loaded from meta.json only
\* when it is None.
status(p, t) == IF meta[p][t] = None THEN disk[t] ELSE meta[p][t]

\* The store's objects after the status of each task of `read` was read.
Loaded(p, read) ==
  [meta EXCEPT ![p] = [t \in Tasks |->
     IF t \in read /\ meta[p][t] = None THEN disk[t] ELSE meta[p][t]]]

\* TaskWatcher.check over the root: every write of a meta.json is a change
\* for the watcher of every running store.
Notified == [q \in Procs |-> alive[q]]

\* The main thread of p is not inside a dependencies() call.
MainIdle(p) == dpc[p] = "idle" /\ wt[p].pc = "idle"

\* LocalTasksStore.search: the ids of the catalog that start with prefix.
search(p, prefix) == {k \in tasks[p] : StartsWith(k, prefix)}

\* LocalTasksStore.get: a tag name is replaced by the id its entry of _tags
\* holds; then the task of that id, or the only task whose id starts with
\* it, or None.
get(p, identifier) ==
  LET id == IF identifier \in TagNames /\ tags[p][identifier] # None
              THEN tags[p][identifier] ELSE identifier
  IN  IF id \in tasks[p] THEN id
      ELSE IF Cardinality(search(p, id)) = 1
        THEN CHOOSE k \in search(p, id) : TRUE
      ELSE None

\* update(None), lines 428-432: the _tags a scan builds, from the tag files
\* that hold the id of a task it loaded.
ScannedTags == [g \in TagNames |-> IF tagfile[g] \in Present THEN tagfile[g] ELSE None]

(***************************************************************************)
(* LocalTasksStore.__init__: update(), which scans the root, makes a Task  *)
(* object (with _meta None) per task directory and a new watcher.          *)
(***************************************************************************)
Startup(p) ==
  /\ ~alive[p]
  /\ alive' = [alive EXCEPT ![p] = TRUE]
  /\ tasks' = [tasks EXCEPT ![p] = Present]
  /\ meta' = [meta EXCEPT ![p] = [t \in Tasks |-> None]]
  /\ gen' = [gen EXCEPT ![p] = 0]
  /\ changed' = [changed EXCEPT ![p] = FALSE]
  /\ qopen' = [qopen EXCEPT ![p] = TRUE]
  /\ tags' = [tags EXCEPT ![p] = ScannedTags]
  /\ UNCHANGED <<fileVars, runVars, depVars, order, qcand, qres, hashVars, tagfile, gres, entries, sideVars>>

\* The generations of the Task objects of p that a thread or a flock still
\* refers to, and the ones a rescan can give to its new objects.
HoldsTask == {"pick", "run", "setup", "running", "runlock", "child"}

InUse(p) ==
  {rgen[r] : r \in {x \in Runners : ProcOf(x) = p /\ pc[x] \in HoldsTask}}
    \cup {runlock[t].gen : t \in {x \in Tasks : runlock[x].proc = p}}

FreeGen(p) == {g \in 0..MaxGen : g # gen[p] /\ g \notin InUse(p)}

\* LocalTasksStore.update(None): the same rescan on a running store.  A
\* run in progress keeps the Task object it was given.
Rescan(p) ==
  /\ FreeGen(p) # {}
  /\ tasks' = [tasks EXCEPT ![p] = Present]
  /\ meta' = [meta EXCEPT ![p] = [t \in Tasks |-> None]]
  /\ gen' = [gen EXCEPT ![p] = CHOOSE g \in FreeGen(p) : \A h \in FreeGen(p) : g <= h]
  /\ changed' = [changed EXCEPT ![p] = FALSE]
  /\ tags' = [tags EXCEPT ![p] = ScannedTags]

update(p) ==
  /\ alive[p]
  /\ Rescan(p)
  /\ UNCHANGED <<fileVars, alive, runVars, depVars, queueVars, hashVars, tagfile, gres, entries, sideVars>>

\* LocalTasksStore.update(identifier), lines 444-445: for an id of the
\* catalog, _load is given os.path.join(self._root, identifier), the path
\* of the task directory, and stores a new Task object under that path as
\* its key; the entry under the id stays as it is.  Nothing happens for an
\* identifier that is no key of the catalog.
updateOne(p, identifier) ==
  LET path == CASE identifier = "A" -> "/tasks/A" [] identifier = "B" -> "/tasks/B"
                [] OTHER -> "/tasks/C"
  IN
  /\ alive[p]
  /\ MainIdle(p)
  /\ tasks' = IF identifier \in tasks[p] THEN [tasks EXCEPT ![p] = @ \cup {path}] ELSE tasks
  /\ UNCHANGED <<fileVars, alive, meta, gen, changed, runVars, depVars, queueVars, hashVars, auxVars>>

\* The process is killed (or exits): its threads are gone and the operating
\* system drops the flocks it held.  The files stay as they are.
Kill(p) ==
  /\ alive[p]
  /\ alive' = [alive EXCEPT ![p] = FALSE]
  /\ tasks' = [tasks EXCEPT ![p] = {}]
  /\ meta' = [meta EXCEPT ![p] = [t \in Tasks |-> None]]
  /\ gen' = [gen EXCEPT ![p] = 0]
  /\ changed' = [changed EXCEPT ![p] = FALSE]
  /\ runlock' = [t \in Tasks |-> IF runlock[t].proc = p THEN NoHolder ELSE runlock[t]]
  /\ pc' = [r \in Runners |-> IF ProcOf(r) = p THEN "idle" ELSE pc[r]]
  /\ rtask' = [r \in Runners |-> IF ProcOf(r) = p THEN IdleTask ELSE rtask[r]]
  /\ rforce' = [r \in Runners |-> IF ProcOf(r) = p THEN FALSE ELSE rforce[r]]
  /\ rdeps' = [r \in Runners |-> IF ProcOf(r) = p THEN "empty" ELSE rdeps[r]]
  /\ rgen' = [r \in Runners |-> IF ProcOf(r) = p THEN 0 ELSE rgen[r]]
  /\ rres' = [r \in Runners |-> IF ProcOf(r) = p THEN None ELSE rres[r]]
  /\ dpc' = [dpc EXCEPT ![p] = "idle"]
  /\ dtask' = [dtask EXCEPT ![p] = IdleTask]
  /\ dwait' = [dwait EXCEPT ![p] = FALSE]
  /\ dres' = [dres EXCEPT ![p] = NoResult]
  /\ cres' = [cres EXCEPT ![p] = NoCall]
  /\ qopen' = [qopen EXCEPT ![p] = FALSE]
  /\ qcand' = [r \in Runners |-> IF ProcOf(r) = p THEN << >> ELSE qcand[r]]
  /\ qres' = [r \in Runners |-> IF ProcOf(r) = p THEN None ELSE qres[r]]
  /\ tags' = [tags EXCEPT ![p] = [g \in TagNames |-> None]]
  /\ gres' = [gres EXCEPT ![p] = NoGet]
  /\ wt' = [wt EXCEPT ![p] = NoWait]
  /\ UNCHANGED <<disk, lockfile, order, hashVars, tagfile, entries, mux, log, steps, env, lk, doc>>

(***************************************************************************)
(* LocalTasksStore.create, for the inputs that hash to task t.             *)
(* _normalize_arguments raises when a referenced task is not in the        *)
(* catalog.  The existence test reads the in-memory catalog, not the       *)
(* directory: a store that has not seen t writes a new meta.json.  The      *)
(* call returns the catalog's task, or None for a task of the catalog when *)
(* exist_ok is false.                                                      *)
(***************************************************************************)
\* A faulty create, without the existence test.
createOver(p, t, exist_ok) ==
  /\ alive[p]
  /\ MainIdle(p)
  /\ \A d \in Range(TaskDependencies(t)) : get(p, d) # None
  /\ disk' = [disk EXCEPT ![t] = "pending"]
  /\ order' = Append(SelectSeq(order, LAMBDA x : x # t), t)
  /\ changed' = Notified
  /\ tasks' = [tasks EXCEPT ![p] = tasks[p] \cup {t}]
  /\ meta' = [meta EXCEPT ![p][t] = None]
  /\ cres' = [cres EXCEPT ![p] = [task |-> t, exist_ok |-> exist_ok, res |-> "task"]]
  /\ UNCHANGED <<lockfile, runlock, alive, gen, runVars, dpc, dtask, dwait, dres, qopen, qcand, qres, hashVars, auxVars>>

create(p, t, exist_ok) ==
  /\ alive[p]
  /\ MainIdle(p)
  /\ \A d \in Range(TaskDependencies(t)) : get(p, d) # None
  /\ IF t \in tasks[p]
       THEN /\ cres' = [cres EXCEPT ![p] = [task |-> t, exist_ok |-> exist_ok,
                                            res |-> IF exist_ok THEN "task" ELSE "nil"]]
            /\ UNCHANGED <<disk, changed, tasks, meta, order>>
       ELSE /\ disk' = [disk EXCEPT ![t] = "pending"]
            /\ order' = Append(SelectSeq(order, LAMBDA x : x # t), t)
            /\ changed' = Notified
            /\ tasks' = [tasks EXCEPT ![p] = tasks[p] \cup {t}]
            /\ meta' = [meta EXCEPT ![p][t] = None]
            /\ cres' = [cres EXCEPT ![p] = [task |-> t, exist_ok |-> exist_ok, res |-> "task"]]
  /\ UNCHANGED <<lockfile, runlock, alive, gen, runVars, dpc, dtask, dwait, dres, qopen, qcand, qres, hashVars, auxVars>>

(***************************************************************************)
(* Task.run                                                                *)
(***************************************************************************)

\* Task._status on the Task object of generation g of process p: the status
\* goes into the object's _meta and _push rewrites meta.json.
_status(p, g, t, s) ==
  /\ disk' = [disk EXCEPT ![t] = s]
  /\ changed' = Notified
  /\ meta' = IF g = gen[p] THEN [meta EXCEPT ![p][t] = s] ELSE meta

\* A thread leaves run: it returns true or false, or raises.
Return(r, res) ==
  /\ pc' = [pc EXCEPT ![r] = "idle"]
  /\ rtask' = [rtask EXCEPT ![r] = IdleTask]
  /\ rforce' = [rforce EXCEPT ![r] = FALSE]
  /\ rdeps' = [rdeps EXCEPT ![r] = "empty"]
  /\ rgen' = [rgen EXCEPT ![r] = 0]
  /\ rres' = [rres EXCEPT ![r] = res]

\* A thread calls task.run(force, dependencies) on a task of its store.  The
\* dependencies are the default [] ("empty") or the store's Task objects of
\* all the predecessors ("store").
RunCall(r, t, force, arg) ==
  /\ alive[ProcOf(r)]
  /\ pc[r] = "idle"
  /\ t \in tasks[ProcOf(r)]
  /\ arg = "store" => /\ TaskDependencies(t) # << >>
                      /\ Range(TaskDependencies(t)) \subseteq tasks[ProcOf(r)]
  /\ pc' = [pc EXCEPT ![r] = "run"]
  /\ rtask' = [rtask EXCEPT ![r] = t]
  /\ rforce' = [rforce EXCEPT ![r] = force]
  /\ rdeps' = [rdeps EXCEPT ![r] = arg]
  /\ rgen' = [rgen EXCEPT ![r] = gen[ProcOf(r)]]
  /\ rres' = [rres EXCEPT ![r] = None]
  /\ UNCHANGED <<fileVars, storeVars, depVars, queueVars, hashVars, auxVars>>

\* A faulty Validate that looks at the first entry of the map only.
ValidateFirst(p, deps, i, arg, found) ==
  IF i > Len(deps) THEN [ok |-> TRUE, read |-> {}]
  ELSE IF arg = "empty" THEN [ok |-> FALSE, read |-> {}]
  ELSE IF status(p, deps[i]) # "complete" THEN [ok |-> FALSE, read |-> {deps[i]}]
  ELSE [ok |-> found, read |-> {deps[i]}]

\* The loop over self.dependencies.items() of run, from the i-th entry: the
\* first entry that is not among the given dependencies, is not complete or
\* lacks its file fails the run.  `found` says whether the files are there.
RECURSIVE Validate(_, _, _, _, _)
Validate(p, deps, i, arg, found) ==
  IF i > Len(deps) THEN [ok |-> TRUE, read |-> {}]
  ELSE IF arg = "empty" THEN [ok |-> FALSE, read |-> {}]
  ELSE IF status(p, deps[i]) # "complete" THEN [ok |-> FALSE, read |-> {deps[i]}]
  ELSE IF ~found THEN [ok |-> FALSE, read |-> {deps[i]}]
  ELSE LET rest == Validate(p, deps, i + 1, arg, found)
       IN  [ok |-> rest.ok, read |-> rest.read \cup {deps[i]}]

\* A faulty EarlyReturn that has no test for a task in progress.
EarlyReturnNoRunning(s, force) ==
  IF s = "complete" /\ ~force THEN "true"
  ELSE IF s = "failed" /\ ~force THEN "false"
  ELSE None

\* run, lines 89-99: what run returns at once for the status s that update()
\* loaded, or None when it goes on.
EarlyReturn(s, force) ==
  IF s = "complete" /\ ~force THEN "true"
  ELSE IF s = "failed" /\ ~force THEN "false"
  ELSE IF s = "running" THEN "true"
  ELSE None

\* A faulty LockedStatus that goes straight to running.
LockedStatusSkip(s, force, valid) ==
  IF EarlyReturn(s, force) # None THEN s
  ELSE IF ~valid THEN "failed"
  ELSE "running"

\* The status run leaves at the end of its section under the task lock,
\* given the status s that update() loaded: s itself when run returns at
\* once, failed when the dependencies do not validate, else preparing.
LockedStatus(s, force, valid) ==
  IF EarlyReturn(s, force) # None THEN s
  ELSE IF ~valid THEN "failed"
  ELSE "preparing"

\* run, lines 86-120, under the task lock: update(), the three early
\* returns, the validation and staging of the dependencies, PREPARING.
RunLocked(r, found) ==
  LET p == ProcOf(r)
      t == rtask[r]
      s == disk[t]
      v == Validate(p, TaskDependencies(t), 1, rdeps[r], found)
      to == LockedStatus(s, rforce[r], v.ok)
      early == EarlyReturn(s, rforce[r]) # None
      read == IF early THEN {} ELSE v.read
      loaded == Loaded(p, read)
  IN
  /\ pc[r] = "run"
  /\ IF early
       THEN /\ meta' = IF rgen[r] = gen[p] THEN [meta EXCEPT ![p][t] = s] ELSE meta
            /\ UNCHANGED <<disk, changed>>
            /\ Return(r, EarlyReturn(s, rforce[r]))
       ELSE /\ disk' = [disk EXCEPT ![t] = to]
            /\ changed' = Notified
            /\ meta' = IF rgen[r] = gen[p] THEN [loaded EXCEPT ![p][t] = to] ELSE loaded
            /\ IF to = "preparing"
                 THEN /\ pc' = [pc EXCEPT ![r] = "setup"]
                      /\ UNCHANGED <<rtask, rforce, rdeps, rgen, rres>>
                 ELSE Return(r, "raise")
  /\ UNCHANGED <<lockfile, runlock, alive, tasks, gen, depVars, queueVars, hashVars, auxVars>>

\* run, lines 122-125: Environment(...) and env.setup().  The constructor
\* asks the remote for its heads and raises when git fails; setup returns
\* false or none when the checkout or the environment cannot be made.
RunSetup(r, outcome) ==
  /\ pc[r] = "setup"
  /\ CASE outcome = "ok" ->
            /\ pc' = [pc EXCEPT ![r] = "running"]
            /\ UNCHANGED <<disk, changed, meta, rtask, rforce, rdeps, rgen, rres>>
       [] outcome = "fail" ->
            /\ _status(ProcOf(r), rgen[r], rtask[r], "failed")
            /\ Return(r, "false")
       [] outcome = "raise" ->
            /\ UNCHANGED <<disk, changed, meta>>
            /\ Return(r, "raise")
  /\ UNCHANGED <<lockfile, runlock, alive, tasks, gen, depVars, queueVars, hashVars, auxVars>>

\* run, line 130: self._status(TaskStatus.RUNNING), before the runlock.
RunStatusRunning(r) ==
  /\ pc[r] = "running"
  /\ _status(ProcOf(r), rgen[r], rtask[r], "running")
  /\ pc' = [pc EXCEPT ![r] = "runlock"]
  /\ UNCHANGED <<lockfile, runlock, alive, tasks, gen, rtask, rforce, rdeps, rgen, rres, depVars, queueVars, hashVars, auxVars>>

\* Whether the FileLock of the Task object of generation g of process p can
\* take the flock: nobody holds it, or that same object does (a FileLock
\* counts its acquisitions and takes the flock only for the first).
Acquirable(p, g, t) ==
  \/ runlock[t].proc = 0
  \/ runlock[t].proc = p /\ runlock[t].gen = g

\* run, line 143: with self._runlock (a blocking acquire), then the sinks
\* and the child process are started.
RunAcquire(r) ==
  /\ pc[r] = "runlock"
  /\ Acquirable(ProcOf(r), rgen[r], rtask[r])
  /\ runlock' = [runlock EXCEPT ![rtask[r]] =
       [proc |-> ProcOf(r), gen |-> rgen[r], users |-> @.users \cup {r}, leaked |-> @.leaked]]
  /\ lockfile' = [lockfile EXCEPT ![rtask[r]] = TRUE]
  /\ pc' = [pc EXCEPT ![r] = "child"]
  /\ UNCHANGED <<disk, storeVars, rtask, rforce, rdeps, rgen, rres, depVars, queueVars, hashVars, auxVars>>

\* FileLock.release by thread r: the flock is dropped when the count is 0.
Released(h, r) ==
  IF h.users \ {r} = {} /\ ~h.leaked THEN NoHolder
  ELSE [h EXCEPT !.users = @ \ {r}]

\* run, lines 157-165: env.run returns whether the child exited with 0, or
\* raises when the child cannot be spawned; COMPLETE or FAILED; the runlock
\* is released as the with block is left.
RunChild(r, outcome) ==
  /\ pc[r] = "child"
  /\ CASE outcome = "zero" -> _status(ProcOf(r), rgen[r], rtask[r], "complete")
       [] outcome = "nonzero" -> _status(ProcOf(r), rgen[r], rtask[r], "failed")
       [] outcome = "raise" -> UNCHANGED <<disk, changed, meta>>
  /\ runlock' = [runlock EXCEPT ![rtask[r]] = Released(@, r)]
  /\ Return(r, CASE outcome = "zero" -> "true" [] outcome = "nonzero" -> "false" [] OTHER -> "raise")
  /\ UNCHANGED <<lockfile, alive, tasks, gen, depVars, queueVars, hashVars, auxVars>>

\* Task.run by thread r, called on a task of T with force in F and the
\* dependencies argument in A.
run(r, T, F, A) ==
  \/ \E t \in T, force \in F, arg \in A : RunCall(r, t, force, arg)
  \/ \E found \in BOOLEAN : RunLocked(r, found)
  \/ \E outcome \in {"ok", "fail", "raise"} : RunSetup(r, outcome)
  \/ RunStatusRunning(r)
  \/ RunAcquire(r)
  \/ \E outcome \in {"zero", "nonzero", "raise"} : RunChild(r, outcome)

(***************************************************************************)
(* The other operations on a task of the store, by the main thread         *)
(***************************************************************************)

\* A read of task.status (a listing, the check before a reset): it loads
\* _meta when it is None.
ReadStatus(p, t) ==
  /\ alive[p]
  /\ MainIdle(p)
  /\ t \in tasks[p]
  /\ meta[p][t] = None
  /\ meta' = Loaded(p, {t})
  /\ UNCHANGED <<fileVars, alive, tasks, gen, changed, runVars, depVars, queueVars, hashVars, auxVars>>

\* Task.restore.  For a task it sees as running: without a runlock file it
\* marks the task failed; with one, it tries the runlock for 0.1 s and, when
\* it gets it, calls self._update, which Task does not define: the
\* AttributeError leaves restore before the release, so the status stays
\* and the object keeps the runlock.
restore(p, t) ==
  /\ alive[p]
  /\ MainIdle(p)
  /\ t \in tasks[p]
  /\ IF status(p, t) # "running"
       THEN /\ meta' = Loaded(p, {t})
            /\ UNCHANGED <<disk, changed, runlock>>
       ELSE IF ~lockfile[t]
       THEN /\ _status(p, gen[p], t, "failed")
            /\ UNCHANGED runlock
       ELSE IF Acquirable(p, gen[p], t)
       THEN /\ runlock' = [runlock EXCEPT ![t] =
                 [proc |-> p, gen |-> gen[p], users |-> @.users, leaked |-> TRUE]]
            /\ meta' = Loaded(p, {t})
            /\ UNCHANGED <<disk, changed>>
       ELSE /\ meta' = Loaded(p, {t})
            /\ UNCHANGED <<disk, changed, runlock>>
  /\ UNCHANGED <<lockfile, alive, tasks, gen, runVars, depVars, queueVars, hashVars, auxVars>>

\* The loop of reset(clear=True), lines 204-210, takes the directories away: entry.is_dir is the bound
\* method, which is true for every entry, so each entry but .meta goes to
\* shutil.rmtree(ignore_errors=True).  That removes a directory and fails,
\* silently, on a regular file and on a symbolic link.
\* Task.reset, after task_reset has read the status: with clear the entries
\* of the directory are removed as far as the loop removes them; then
\* _status(PENDING) on the object's _meta, which must have been loaded (a
\* None _meta raises TypeError before anything is written).
reset(p, t, clear) ==
  /\ alive[p]
  /\ MainIdle(p)
  /\ t \in tasks[p]
  /\ meta[p][t] # None
  /\ entries' = IF clear THEN [entries EXCEPT ![t] = @ \ {"dir"}] ELSE entries
  /\ _status(p, gen[p], t, "pending")
  /\ UNCHANGED <<lockfile, runlock, alive, tasks, gen, runVars, depVars, queueVars, hashVars, tagfile, tags, gres, sideVars>>

\* Task.set(key, value), under the task lock: update(), then the property
\* is set and the metadata written back, unless it has that value already.
set(p, t, same) ==
  /\ alive[p]
  /\ MainIdle(p)
  /\ t \in tasks[p]
  /\ meta' = [meta EXCEPT ![p][t] = disk[t]]
  /\ changed' = IF same THEN changed ELSE Notified
  /\ UNCHANGED <<fileVars, alive, tasks, gen, runVars, depVars, queueVars, hashVars, auxVars>>

\* The explicit external action that archives a task that is not in
\* progress: the status of its meta.json is set to archived.
Archive(t) ==
  /\ disk[t] \in {"pending", "complete", "failed"}
  /\ disk' = [disk EXCEPT ![t] = "archived"]
  /\ changed' = Notified
  /\ UNCHANGED <<lockfile, runlock, alive, tasks, meta, gen, runVars, depVars, queueVars, hashVars, auxVars>>

(***************************************************************************)
(* Tags, removal and lookup (LocalTasksStore.tag, tags, remove, get)       *)
(***************************************************************************)

\* LocalTasksStore.tags: the tag names whose entry of _tags is the task.
TagsOf(p, t) == {g \in TagNames : tags[p][g] = t}

\* LocalTasksStore.tag, for a task of the store (task_tag gets it from
\* get): the entry of _tags is set and the file <root>/<tag> is written.
\* The watcher looks at meta.json files only.
tag(p, t, g) ==
  /\ alive[p]
  /\ MainIdle(p)
  /\ t \in tasks[p]
  /\ tags' = [tags EXCEPT ![p][g] = t]
  /\ tagfile' = [tagfile EXCEPT ![g] = t]
  /\ UNCHANGED <<fileVars, storeVars, runVars, depVars, queueVars, hashVars, gres, entries, sideVars>>

\* LocalTasksStore.remove.  Nothing happens for an id the catalog does not
\* have.  Else the files of the tag names of tags(task) are unlinked,
\* whatever they hold now; a file that is not there raises
\* FileNotFoundError, after the files in `gone` were unlinked and before
\* anything else is done.  Then the directory is removed and the id leaves
\* _tasks; the entries of _tags stay.
remove(p, t) ==
  /\ alive[p]
  /\ MainIdle(p)
  /\ IF t \notin tasks[p]
       THEN UNCHANGED <<fileVars, tasks, meta, changed, order, tagfile, entries>>
       ELSE IF \E g \in TagsOf(p, t) : tagfile[g] = Absent
       THEN /\ \E gone \in SUBSET {g \in TagsOf(p, t) : tagfile[g] # Absent} :
                 tagfile' = [g \in TagNames |-> IF g \in gone THEN Absent ELSE tagfile[g]]
            /\ UNCHANGED <<fileVars, tasks, meta, changed, order, entries>>
       ELSE /\ tagfile' = [g \in TagNames |-> IF g \in TagsOf(p, t) THEN Absent ELSE tagfile[g]]
            /\ disk' = [disk EXCEPT ![t] = Absent]
            /\ lockfile' = [lockfile EXCEPT ![t] = FALSE]
            /\ runlock' = [runlock EXCEPT ![t] = NoHolder]
            /\ entries' = [entries EXCEPT ![t] = {}]
            /\ order' = SelectSeq(order, LAMBDA x : x # t)
            /\ changed' = IF disk[t] # Absent THEN Notified ELSE changed
            /\ tasks' = [tasks EXCEPT ![p] = tasks[p] \ {t}]
            /\ meta' = [meta EXCEPT ![p][t] = None]
  /\ UNCHANGED <<alive, gen, runVars, depVars, qopen, qcand, qres, hashVars, tags, gres, sideVars>>

\* A call of get by the main thread of p; the caller keeps the result.
StoreGet(p, identifier) ==
  /\ alive[p]
  /\ MainIdle(p)
  /\ gres' = [gres EXCEPT ![p] = [identifier |-> identifier, res |-> get(p, identifier)]]
  /\ UNCHANGED <<fileVars, storeVars, runVars, depVars, queueVars, hashVars, tagfile, tags, entries, sideVars>>

(***************************************************************************)
(* LocalTasksStore.wait(tasks, timeout), called with tasks None            *)
(***************************************************************************)

\* A faulty test that takes any timeout as elapsed once the time reaches it,
\* so that a timeout of 0 or less ends the call at its first poll.
TimedOutAny(timeout, elapsed) == elapsed >= timeout

\* Line 460: timeout > 0 and elapsed >= timeout.
TimedOut(timeout, elapsed) == timeout > 0 /\ elapsed >= timeout

\* wait(None, timeout) by the main thread of p, with a timeout of T.
StoreWait(p, T) ==
  \* The call.
  \/ \E timeout \in T :
       /\ alive[p]
       /\ MainIdle(p)
       /\ wt' = [wt EXCEPT ![p] = [pc |-> "poll", timeout |-> timeout, elapsed |-> 0,
                                    polls |-> 0, saw |-> FALSE, res |-> None]]
       /\ UNCHANGED <<coreVars, mux, log, steps, env, lk, doc>>
  \* Lines 456-463, one turn of the loop up to the return or the sleep:
  \* check() reports the changes since the last check and forgets them.
  \/ /\ wt[p].pc = "poll"
     /\ wt[p].polls < MaxPolls
     /\ changed' = [changed EXCEPT ![p] = FALSE]
     /\ wt' = [wt EXCEPT ![p] =
          [@ EXCEPT !.polls = @ + 1,
                    !.saw = changed[p],
                    !.pc = IF changed[p] \/ TimedOut(wt[p].timeout, wt[p].elapsed)
                             THEN "idle" ELSE "sleep",
                    !.res = IF changed[p] THEN "true"
                            ELSE IF TimedOut(wt[p].timeout, wt[p].elapsed) THEN "false"
                            ELSE None]]
     /\ UNCHANGED <<fileVars, alive, tasks, meta, gen, runVars, depVars, queueVars, hashVars,
                    tagfile, tags, gres, entries, mux, log, steps, env, lk, doc>>
  \* sleep(0.1): the next poll finds the clock one or two units later.
  \/ \E d \in {1, 2} :
       /\ wt[p].pc = "sleep"
       /\ wt' = [wt EXCEPT ![p] = [@ EXCEPT !.pc = "poll", !.elapsed = @ + d]]
       /\ UNCHANGED <<coreVars, mux, log, steps, env, lk, doc>>

(***************************************************************************)
(* The output tap (Multiplexer in src/msks/log.py)                         *)
(***************************************************************************)

\* Bound: the pushes to one Multiplexer.
MaxLines == 3

\* The sub-sinks of the Multiplexer of Task.run, in their order: the
\* FileOutput, the PrintOutput and an extractor.
Sinks == <<"file", "print", "extractor">>

\* What is pushed: a line, or None when the output ends.
Lines == {"a", "b", None}

\* How the calls of the sub-sinks end: outcomes[i] is FALSE when the i-th
\* raises an Exception.
Outcomes == [1..Len(Sinks) -> BOOLEAN]

\* A faulty loop without the try: the first sub-sink that raises ends it and
\* the exception leaves the Multiplexer.
RECURSIVE DeliverAbort(_, _, _, _)
DeliverAbort(m, line, outcomes, i) ==
  IF i > Len(Sinks) THEN m
  ELSE LET called == [m EXCEPT !.calls =
                        Append(@, [sink |-> Sinks[i], line |-> line, ok |-> outcomes[i]])]
       IN  IF outcomes[i] THEN DeliverAbort(called, line, outcomes, i + 1)
           ELSE [called EXCEPT !.raised = TRUE]

\* Multiplexer.__call__, lines 21-25, from the i-th processor on: each is
\* called with the line, and an Exception it raises is logged.
RECURSIVE Deliver(_, _, _, _)
Deliver(m, line, outcomes, i) ==
  IF i > Len(Sinks) THEN m
  ELSE LET called == [m EXCEPT !.calls =
                        Append(@, [sink |-> Sinks[i], line |-> line, ok |-> outcomes[i]])]
       IN  IF outcomes[i] THEN Deliver(called, line, outcomes, i + 1)
           ELSE Deliver([called EXCEPT !.logged = @ + 1], line, outcomes, i + 1)

\* One push to the Multiplexer by the thread that reads the child's output.
MuxCall(line, outcomes) ==
  /\ Len(mux.pushed) < MaxLines
  /\ ~mux.raised
  /\ mux' = Deliver([mux EXCEPT !.pushed = Append(@, line)], line, outcomes, 1)
  /\ UNCHANGED <<coreVars, wt, log, steps, env, lk, doc>>

(***************************************************************************)
(* The output of the child (Environment._run_command, FileOutput)          *)
(***************************************************************************)

\* Bound: the bytes a child writes.
MaxBytes == 4

\* The bytes a child writes: the letter a, the line feed, and 0xC3 and 0xA9,
\* which are the UTF-8 encoding of one character when A9 follows C3 and are
\* not UTF-8 otherwise.
Bytes == {"a", "nl", "C3", "A9"}

\* bytes.decode(): the characters of a UTF-8 byte string, from the i-th
\* byte on; ok is FALSE where it raises UnicodeDecodeError.
RECURSIVE decode(_, _)
decode(b, i) ==
  IF i > Len(b) THEN [ok |-> TRUE, chars |-> << >>]
  ELSE IF b[i] \in {"a", "nl"}
    THEN LET rest == decode(b, i + 1)
         IN  [ok |-> rest.ok, chars |-> <<b[i]>> \o rest.chars]
  ELSE IF b[i] = "C3" /\ i < Len(b) /\ b[i + 1] = "A9"
    THEN LET rest == decode(b, i + 2)
         IN  [ok |-> rest.ok, chars |-> <<"e-acute">> \o rest.chars]
  ELSE [ok |-> FALSE, chars |-> << >>]

\* The bytes a text file opened with "w" gets for a string (UTF-8, and the
\* line feed as it is).
RECURSIVE encode(_, _)
encode(chars, i) ==
  IF i > Len(chars) THEN << >>
  ELSE (IF chars[i] = "e-acute" THEN <<"C3", "A9">> ELSE <<chars[i]>>)
         \o encode(chars, i + 1)

\* A run of the task, after the runs before it have ended: a new
\* FileOutput for output.txt (task.py 144) and subprocess.Popen, line 397.
LogStart ==
  /\ log.pc \in {"idle", "done", "raised"}
  /\ log' = [log EXCEPT !.pc = "read", !.child = "running", !.written = << >>,
                        !.pipe = << >>, !.handle = FALSE, !.prev = log.out]
  /\ UNCHANGED <<coreVars, wt, mux, steps, env, lk, doc>>

\* The child writes a byte to its stdout or stderr, which are one pipe.
ChildWrite(b) ==
  /\ log.child = "running"
  /\ Len(log.written) < MaxBytes
  /\ log' = [log EXCEPT !.written = Append(@, b), !.pipe = Append(@, b)]
  /\ UNCHANGED <<coreVars, wt, mux, steps, env, lk, doc>>

\* The child exits, which closes its end of the pipe.
ChildExit ==
  /\ log.child = "running"
  /\ log' = [log EXCEPT !.child = "exited"]
  /\ UNCHANGED <<coreVars, wt, mux, steps, env, lk, doc>>

\* FileOutput.__call__: the file is opened with "w" when it is not open,
\* which empties it; a line is written and flushed, None closes the file.
FileOutput(l, chars, none) ==
  [l EXCEPT !.handle = ~none,
            !.out = (IF l.handle THEN @ ELSE << >>)
                      \o (IF none THEN << >> ELSE encode(chars, 1))]

\* One turn of the loop of lines 399-405, with a FileOutput as output:
\* readline returns once the pipe holds a line or is at its end, with the
\* bytes up to and with the first line feed, or all of them; decode
\* raises UnicodeDecodeError, which nothing catches, for bytes that are not
\* UTF-8; an empty line after the child has exited ends the loop and None
\* is pushed (lines 407-408).
ReadLine ==
  LET pipe == log.pipe
      n == IF \E i \in 1..Len(pipe) : pipe[i] = "nl"
             THEN CHOOSE i \in 1..Len(pipe) :
                    pipe[i] = "nl" /\ \A j \in 1..(i - 1) : pipe[j] # "nl"
             ELSE Len(pipe)
      line == decode(SubSeq(log.pipe, 1, n), 1)
      rest == [log EXCEPT !.pipe = SubSeq(@, n + 1, Len(@))]
  IN
  /\ log.pc = "read"
  /\ log.child = "exited" \/ \E i \in 1..Len(log.pipe) : log.pipe[i] = "nl"
  /\ log' = IF ~line.ok THEN [rest EXCEPT !.pc = "raised"]
            ELSE IF n = 0 THEN [FileOutput(rest, << >>, TRUE) EXCEPT !.pc = "done"]
            ELSE FileOutput(rest, line.chars, FALSE)
  /\ UNCHANGED <<coreVars, wt, mux, steps, env, lk, doc>>

(***************************************************************************)
(* The stepped series (StepsExtractor.handler in src/msks/log.py)          *)
(***************************************************************************)

\* Bound: the pushes to one handler.
MaxPushed == 4

\* The lines pushed: step lines ("step: 02"), value lines ("loss: 0.50"),
\* lines that match neither pattern, and None when the output ends.
StepLines ==
  {[kind |-> "step", text |-> x] : x \in {"1", "2", "02", "3"}}
    \cup {[kind |-> "value", text |-> x] : x \in {"0.5", "0.50", "0.2"}}
    \cup {[kind |-> "other", text |-> ""], [kind |-> "nil", text |-> ""]}

\* int(match.group(1)).
int(text) ==
  CASE text = "1" -> 1 [] text = "2" -> 2 [] text = "02" -> 2 [] text = "3" -> 3

\* float(value), in tenths.
float(text) ==
  CASE text = "0.5" -> 5 [] text = "0.50" -> 5 [] text = "0.2" -> 2

\* A dict of one step: the value of loss, or NoStep without one.
EmptyDict == [loss |-> NoStep]

\* The list the writer is given: the dicts _data refers to.
Render(st) == [i \in 1..Len(st.data) |-> st.cells[st.data[i]]]

Snapshot(st) == [type |-> "steps", offset |-> st.offset, data |-> Render(st)]

\* A faulty dostep that takes every step it is given, a lower one too.
dostepAny(st, step) ==
  LET anchored ==
        IF st.step = NoStep
          THEN [st EXCEPT !.step = IF step = NoStep THEN 0 ELSE step,
                          !.offset = IF step = NoStep THEN 0 ELSE step]
        ELSE IF step # NoStep THEN [st EXCEPT !.step = step]
        ELSE st
      need == anchored.step - anchored.offset + 1
      grown == [anchored EXCEPT
                  !.cells = Append(@, EmptyDict),
                  !.data = @ \o [i \in 1..(need - Len(anchored.data)) |-> Len(anchored.cells) + 1]]
  IN  IF Len(anchored.data) >= need THEN anchored
      ELSE [grown EXCEPT !.emitted = Append(@, Snapshot(grown))]

\* dostep, lines 106-119: the first call sets step and offset, to 0 without
\* a step; a later one raises step; a list that is too short is extended
\* by [{}] * n, which is n references to one new dict, and given to the
\* writer.
dostep(st, step) ==
  LET anchored ==
        IF st.step = NoStep
          THEN [st EXCEPT !.step = IF step = NoStep THEN 0 ELSE step,
                          !.offset = IF step = NoStep THEN 0 ELSE step]
        ELSE IF step # NoStep /\ st.step < step THEN [st EXCEPT !.step = step]
        ELSE st
      need == anchored.step - anchored.offset + 1
      grown == [anchored EXCEPT
                  !.cells = Append(@, EmptyDict),
                  !.data = @ \o [i \in 1..(need - Len(anchored.data)) |-> Len(anchored.cells) + 1]]
  IN  IF Len(anchored.data) >= need THEN anchored
      ELSE [grown EXCEPT !.emitted = Append(@, Snapshot(grown))]

\* callback, lines 121-149.
callback(st, line) ==
  CASE line.kind = "nil" -> [st EXCEPT !.emitted = Append(@, Snapshot(st))]
    [] line.kind = "step" -> dostep(st, int(line.text))
    [] line.kind = "value" ->
         LET stepped == dostep(st, NoStep)
             i == stepped.step - stepped.offset + 1
         IN  [stepped EXCEPT !.cells[stepped.data[i]].loss = float(line.text)]
    [] OTHER -> st

\* One push to the handler.
StepsPush(line) ==
  /\ Len(steps.lines) < MaxPushed
  /\ steps' = [callback(steps, line) EXCEPT !.lines = Append(@, line)]
  /\ UNCHANGED <<coreVars, wt, mux, log, env, lk, doc>>

(***************************************************************************)
(* Environment.setup (_setup_conda_environment in src/msks/environment.py) *)
(* The directory of the environment is absent, partial (conda env create   *)
(* has not finished), conda (created: <id>/condabin/conda is there, the    *)
(* pip and shell steps are not done) or built.                             *)
(***************************************************************************)

\* setup() by caller c.
setup(c) ==
  \* setup() is called; _setup_conda finds the conda installation.
  \/ /\ env.pc[c] = "idle"
     /\ env' = [env EXCEPT !.pc[c] = "lock", !.success[c] = FALSE, !.res[c] = None]
     /\ UNCHANGED <<coreVars, wt, mux, log, steps, lk, doc>>
  \* Lines 324-330: the lock is taken; an environment that exists, which is
  \* one that has the file <id>/condabin/conda, is returned as set up.
  \/ /\ env.pc[c] = "lock"
     /\ env.lock = 0
     /\ env' = IF env.dir \in {"conda", "built"}
                 THEN [env EXCEPT !.pc[c] = "idle", !.res[c] = "true"]
                 ELSE [env EXCEPT !.pc[c] = "create", !.lock = c]
     /\ UNCHANGED <<coreVars, wt, mux, log, steps, lk, doc>>
  \* Line 336: conda env create, which makes the directory and fails or
  \* completes.  A failure skips the other steps and leaves the with block.
  \/ \E ok \in BOOLEAN :
       /\ env.pc[c] = "create"
       /\ env' = IF ok
                   THEN [env EXCEPT !.dir = "conda", !.success[c] = TRUE, !.pc[c] = "steps"]
                   ELSE [env EXCEPT !.dir = "partial", !.success[c] = FALSE,
                                    !.pc[c] = "finish", !.lock = 0]
       /\ UNCHANGED <<coreVars, wt, mux, log, steps, lk, doc>>
  \* Lines 338-344: the pip requirements and the shell bootstrap, then the
  \* lock is released as the with block is left.
  \/ \E ok \in BOOLEAN :
       /\ env.pc[c] = "steps"
       /\ env' = [env EXCEPT !.dir = IF ok /\ @ = "conda" THEN "built" ELSE @,
                              !.success[c] = ok, !.pc[c] = "finish", !.lock = 0]
       /\ UNCHANGED <<coreVars, wt, mux, log, steps, lk, doc>>
  \* Lines 346-350, after the with block: True, or the directory is removed
  \* and False is returned; shutil.rmtree raises when there is no directory.
  \/ /\ env.pc[c] = "finish"
     /\ env' = IF env.success[c] THEN [env EXCEPT !.pc[c] = "idle", !.res[c] = "true"]
               ELSE IF env.dir = "absent" THEN [env EXCEPT !.pc[c] = "idle", !.res[c] = "raise"]
               ELSE [env EXCEPT !.dir = "absent", !.pc[c] = "idle", !.res[c] = "false"]
     /\ UNCHANGED <<coreVars, wt, mux, log, steps, lk, doc>>

(***************************************************************************)
(* The locks: the monitor of a store (threading.Condition, one per         *)
(* process), the store file lock (<root>/.lock), the metadata lock and the *)
(* runlock of one task (.meta/.lock, .meta/.runlock) and the locks of the  *)
(* checkout cache and of the environment cache.                            *)
(***************************************************************************)

\* A faulty run that keeps the metadata lock of lines 86-120 until the
\* child has exited.
PathHeld(op) ==
  <<<<"acq", "task">>, <<"acq", "runlock">>, <<"child", "runlock">>,
    <<"rel", "runlock">>, <<"rel", "task">>>>

\* The lock operations of an operation, in the order of its code: acq and
\* rel are the entry and the exit of a with block, try is the acquire(0.1)
\* of restore, child is the wait of _run_command for a line of the child.
Path(op) ==
  LET within(l, body) == <<<<"acq", l>>>> \o body \o <<<<"rel", l>>>>
      reload == within("task", << >>)
      write == within("task", << >>)
      store(body) == within("monitor", within("store", body))
  IN  CASE op = "run" ->
             \* lines 86-120; Environment() and setup(); line 130; the
             \* runlock, under which the entrypoint property, every snapshot
             \* of a DataWriter and the last _status take the metadata lock.
             within("task", reload \o write)
               \o within("sources", << >>) \o within("env", << >>)
               \o write
               \o within("runlock", within("task", << >>)
                                    \o <<<<"child", "runlock">>>>
                                    \o within("task", << >>)
                                    \o <<<<"child", "runlock">>>>
                                    \o write)
        [] op = "restore" ->
             \* TaskStorage.restore, lines 535-539, and Task.restore.
             store(within("task", reload \o <<<<"try", "runlock">>>>))
        [] op = "reset" -> within("task", write)
        [] op = "set" -> within("task", reload \o write)
        [] op = "remove" -> store(within("monitor", << >>))
        \* create, tag and update(None)
        [] OTHER -> store(<< >>)

\* Whether an acquire of lock l by thread r waits.  The monitor is an RLock
\* of the threads of one process.  The store and the task hold one FileLock
\* object per lock, which counts the acquisitions of its process and waits
\* for the flock of another process only; _lock_conda and _lock_sources
\* make a new FileLock for every with block, which waits for any other.
Blocked(r, l) ==
  \E u \in Runners \ {r} :
    /\ \E i \in 1..Len(lk.held[u]) : lk.held[u][i] = l
    /\ CASE l = "monitor" -> ProcOf(u) = ProcOf(r)
         [] l \in {"sources", "env"} -> TRUE
         [] OTHER -> ProcOf(u) # ProcOf(r)

\* A thread calls one of the operations, or takes the next step of the one
\* it is in.  A restore that gets the runlock calls self._update, which
\* does not exist: the AttributeError leaves the with blocks and the
\* FileLock of its Task object keeps the flock.
LockStep(r, ops) ==
  LET path == Path(lk.op[r])
      at == path[lk.pos[r]]
      next == IF lk.pos[r] = Len(path)
                THEN [lk EXCEPT !.op[r] = None, !.pos[r] = 0]
                ELSE [lk EXCEPT !.pos[r] = @ + 1]
      top == CHOOSE i \in 1..Len(lk.held[r]) :
               /\ lk.held[r][i] = at[2]
               /\ \A j \in (i + 1)..Len(lk.held[r]) : lk.held[r][j] # at[2]
  IN
  /\ IF lk.op[r] = None
       THEN \E op \in ops : lk' = [lk EXCEPT !.op[r] = op, !.pos[r] = 1]
       ELSE CASE at[1] = "acq" ->
                   /\ ~Blocked(r, at[2])
                   /\ at[2] = "runlock" => lk.leak \in {0, ProcOf(r)}
                   /\ lk' = [next EXCEPT !.held[r] = Append(@, at[2])]
              [] at[1] = "rel" ->
                   lk' = [next EXCEPT !.held[r] =
                            SubSeq(@, 1, top - 1) \o SubSeq(@, top + 1, Len(@))]
              [] at[1] = "try" ->
                   lk' = IF ~Blocked(r, at[2]) /\ lk.leak = 0
                           THEN [next EXCEPT !.leak = ProcOf(r)]
                           ELSE next
              [] OTHER -> lk' = next
  /\ UNCHANGED <<coreVars, wt, mux, log, steps, env, doc>>

(***************************************************************************)
(* The metadata document of one task: meta.json, the copies the Task       *)
(* objects hold in _meta, and the writes of create, _status and set.       *)
(***************************************************************************)

\* Time passes.
Tick ==
  /\ doc.clock < MaxClock
  /\ doc' = [doc EXCEPT !.clock = @ + 1]
  /\ UNCHANGED <<coreVars, wt, mux, log, steps, env, lk>>

\* A step of process p on the document.
Meta(p) ==
  LET idle == doc.wr.by = 0
      begin(c, locked) ==
        [doc EXCEPT !.partial = TRUE, !.wr = [by |-> p, locked |-> locked, content |-> c]]
  IN
  /\ \/ \* TaskStorage.__init__ and update(None), under the store file lock:
        \* a Task object with _meta None for the directory that has a
        \* meta.json.  The process runs in some time zone.
        /\ idle \/ doc.wr.locked
        /\ doc.wr.by # p
        /\ \E tz \in {-1, 0, 1} :
             /\ doc.up[p] => tz = doc.tz[p]
             /\ doc' = [doc EXCEPT !.known[p] = doc.file.has \/ doc.partial,
                                   !.cache[p] = NoDoc.cache[p], !.up[p] = TRUE, !.tz[p] = tz]
     \/ \* TaskStorage.create for a task that is not in the catalog, lines
        \* 571-586, under the store file lock and not the metadata lock:
        \* created and updated are utcnow(); open(task_meta, "w").
        /\ idle
        /\ doc.up[p] /\ ~doc.known[p]
        /\ doc' = begin([has |-> TRUE, status |-> "pending", created |-> doc.clock,
                         updated |-> doc.clock, props |-> {}], FALSE)
     \/ \* Task.update and the properties that call it, under the metadata
        \* lock: json.load, which raises on a file that is not whole.
        /\ doc.known[p]
        /\ doc.wr.by # p
        /\ idle \/ ~doc.wr.locked
        /\ doc' = IF doc.partial THEN [doc EXCEPT !.seen[p] = "partial"]
                  ELSE [doc EXCEPT !.seen[p] = "whole", !.cache[p] = doc.file]
     \/ \* Task._status, lines 188-192, on a loaded _meta: the status and
        \* updated = utcnow() go into _meta; _push takes the metadata lock
        \* and opens meta.json with "w".
        /\ idle
        /\ doc.known[p] /\ doc.cache[p].has
        /\ \E s \in {"preparing", "complete"} :
             LET c == [doc.cache[p] EXCEPT !.status = s, !.updated = doc.clock]
             IN  doc' = [begin(c, TRUE) EXCEPT !.cache[p] = c]
     \/ \* Task.set(key, value), lines 349-360, under the metadata lock:
        \* update(); the same value returns False; else the property and
        \* updated = now(), the local time, go into _meta; _push.
        /\ idle
        /\ doc.known[p] /\ doc.file.has
        /\ LET c == [doc.file EXCEPT !.props = @ \cup {"key"},
                                     !.updated = doc.clock + doc.tz[p]]
           IN  doc' = IF "key" \in doc.file.props
                        THEN [doc EXCEPT !.cache[p] = doc.file, !.seen[p] = "whole"]
                        ELSE [begin(c, TRUE) EXCEPT !.cache[p] = c, !.seen[p] = "whole"]
     \/ \* json.dump(meta, handle) and the end of the with blocks; create
        \* then makes the Task object of the catalog.
        /\ doc.wr.by = p
        /\ doc' = [doc EXCEPT !.file = doc.wr.content, !.partial = FALSE, !.wr = NoDoc.wr,
                              !.known[p] = TRUE,
                              !.cache[p] = IF doc.wr.locked THEN @ ELSE NoDoc.cache[p]]
  /\ UNCHANGED <<coreVars, wt, mux, log, steps, env, lk>>

(***************************************************************************)
(* LocalTasksStore.dependencies(task, wait)                                *)
(***************************************************************************)

\* A faulty Scan that appends a predecessor whatever its status and never
\* clears ready.
RECURSIVE ScanLax(_, _, _, _, _)
ScanLax(p, deps, i, ready, acc) ==
  IF i > Len(deps) THEN [none |-> FALSE, ready |-> ready, deps |-> acc, read |-> {}]
  ELSE LET d == get(p, deps[i]) IN
    IF d = None THEN [none |-> TRUE, ready |-> ready, deps |-> acc, read |-> {}]
    ELSE IF status(p, d) = "failed"
      THEN [none |-> TRUE, ready |-> ready, deps |-> acc, read |-> {d}]
    ELSE LET rest == ScanLax(p, deps, i + 1, ready, Append(acc, d))
         IN  [rest EXCEPT !.read = @ \cup {d}]

\* A faulty Scan that leaves the loop at the first predecessor that is not
\* complete, without looking at the ones after it.
RECURSIVE ScanBreak(_, _, _, _, _)
ScanBreak(p, deps, i, ready, acc) ==
  IF i > Len(deps) THEN [none |-> FALSE, ready |-> ready, deps |-> acc, read |-> {}]
  ELSE LET d == get(p, deps[i]) IN
    IF d = None THEN [none |-> TRUE, ready |-> ready, deps |-> acc, read |-> {}]
    ELSE IF status(p, d) = "failed"
      THEN [none |-> TRUE, ready |-> ready, deps |-> acc, read |-> {d}]
    ELSE IF status(p, d) # "complete"
      THEN [none |-> FALSE, ready |-> FALSE, deps |-> acc, read |-> {d}]
    ELSE LET rest == ScanBreak(p, deps, i + 1, ready, Append(acc, d))
         IN  [rest EXCEPT !.read = @ \cup {d}]

\* One pass of the loop over task.dependencies, from the i-th entry: a
\* missing or failed predecessor ends it, one that is not complete clears
\* ready, a complete one is appended.
RECURSIVE Scan(_, _, _, _, _)
Scan(p, deps, i, ready, acc) ==
  IF i > Len(deps) THEN [none |-> FALSE, ready |-> ready, deps |-> acc, read |-> {}]
  ELSE LET d == get(p, deps[i]) IN
    IF d = None THEN [none |-> TRUE, ready |-> ready, deps |-> acc, read |-> {}]
    ELSE IF status(p, d) = "failed"
      THEN [none |-> TRUE, ready |-> ready, deps |-> acc, read |-> {d}]
    ELSE LET rest == IF status(p, d) # "complete"
                       THEN Scan(p, deps, i + 1, FALSE, acc)
                       ELSE Scan(p, deps, i + 1, ready, Append(acc, d))
         IN  [rest EXCEPT !.read = @ \cup {d}]

DepCall(p, t, wait) ==
  /\ alive[p]
  /\ dpc[p] = "idle"
  /\ t \in tasks[p]
  /\ dpc' = [dpc EXCEPT ![p] = "scan"]
  /\ dtask' = [dtask EXCEPT ![p] = t]
  /\ dwait' = [dwait EXCEPT ![p] = wait]
  /\ dres' = [dres EXCEPT ![p] = NoResult]
  /\ UNCHANGED <<fileVars, storeVars, runVars, cres, queueVars, hashVars, auxVars>>

\* Lines 426-443: one pass under the monitor, then return or wait.
DepScan(p) ==
  LET sc == Scan(p, TaskDependencies(dtask[p]), 1, TRUE, << >>) IN
  /\ dpc[p] = "scan"
  /\ meta' = Loaded(p, sc.read)
  /\ IF sc.none
       THEN /\ dpc' = [dpc EXCEPT ![p] = "done"]
            /\ dres' = [dres EXCEPT ![p] = [kind |-> "nil", deps |-> << >>]]
       ELSE IF sc.ready \/ ~dwait[p]
       THEN /\ dpc' = [dpc EXCEPT ![p] = "done"]
            /\ dres' = [dres EXCEPT ![p] =
                 IF sc.ready THEN [kind |-> "list", deps |-> sc.deps]
                 ELSE [kind |-> "nil", deps |-> << >>]]
       ELSE /\ dpc' = [dpc EXCEPT ![p] = "wait"]
            /\ UNCHANGED dres
  /\ UNCHANGED <<fileVars, alive, tasks, gen, changed, runVars, dtask, dwait, cres, queueVars, hashVars, auxVars>>

\* LocalTasksStore.wait(task.dependencies), timeout -1: it raises for a
\* task the catalog does not have, else polls the watcher every 0.1 s and
\* returns once check() reports changes (and forgets them).
DepWait(p) ==
  /\ dpc[p] = "wait"
  /\ IF \E d \in Range(TaskDependencies(dtask[p])) : d \notin tasks[p]
       THEN /\ dpc' = [dpc EXCEPT ![p] = "done"]
            /\ dres' = [dres EXCEPT ![p] = [kind |-> "raise", deps |-> << >>]]
            /\ UNCHANGED changed
       ELSE /\ changed[p]
            /\ changed' = [changed EXCEPT ![p] = FALSE]
            /\ dpc' = [dpc EXCEPT ![p] = "scan"]
            /\ UNCHANGED dres
  /\ UNCHANGED <<fileVars, alive, tasks, meta, gen, runVars, dtask, dwait, cres, queueVars, hashVars, auxVars>>

\* The caller has the result.
DepReturn(p) ==
  /\ dpc[p] = "done"
  /\ dpc' = [dpc EXCEPT ![p] = "idle"]
  /\ dtask' = [dtask EXCEPT ![p] = IdleTask]
  /\ dwait' = [dwait EXCEPT ![p] = FALSE]
  /\ dres' = [dres EXCEPT ![p] = NoResult]
  /\ UNCHANGED <<fileVars, storeVars, runVars, cres, queueVars, hashVars, auxVars>>

\* dependencies(task, wait) by the main thread of p, for a task of T.
dependencies(p, T) ==
  \/ \E t \in T, wait \in BOOLEAN : DepCall(p, t, wait)
  \/ DepScan(p)
  \/ DepWait(p)
  \/ DepReturn(p)

(***************************************************************************)
(* The task id: _normalize_arguments, Entrypoint.merge and dict_hash.  A   *)
(* Python dict is the sequence of its key-value pairs in insertion order.  *)
(***************************************************************************)

\* The most arguments a create call passes.
MaxArgs == 3

\* The strings that are compared, in the order of their code points.
Alphabet ==
  <<"A", "B", "arguments", "commit", "dependencies", "entrypoint", "log",
    "out", "repository", "v", "w", "x", "y">>

Before(a, b) ==
  \E i, j \in 1..Len(Alphabet) : Alphabet[i] = a /\ Alphabet[j] = b /\ i < j

\* sorted(list(v)) for a set of strings.
sorted(S) ==
  [i \in 1..Cardinality(S) |->
     CHOOSE x \in S : Cardinality({y \in S : Before(y, x)}) = i - 1]

\* The pairs of a dict by their keys, as sort_keys=True writes them.
SortKeys(items) ==
  [i \in 1..Len(items) |->
     items[CHOOSE a \in 1..Len(items) :
             Cardinality({b \in 1..Len(items) : Before(items[b].k, items[a].k)}) = i - 1]]

\* json.dumps(dictionary, sort_keys=True): the text lists the pairs of every
\* dict, nested ones too, by key, and the elements of a list as they are.
RECURSIVE dumps(_)
dumps(j) ==
  IF j.t = "dict"
    THEN JDict(SortKeys([i \in 1..Len(j.items) |->
                 [k |-> j.items[i].k, v |-> dumps(j.items[i].v)]]))
  ELSE IF j.t = "list"
    THEN JList([i \in 1..Len(j.items) |-> dumps(j.items[i])])
  ELSE j

\* A faulty dict_hash, which writes the pairs in insertion order.
dict_hash_unsorted(dictionary) == [sha1 |-> dictionary]

\* dict_hash: the SHA-1 digest of the encoded text; two digests are equal
\* exactly when the texts are.
dict_hash(dictionary) == [sha1 |-> dumps(dictionary)]

\* The entry point of the calls: x is required, y is an integer, v is
\* declared insignificant, w is by default a file of task B.
EntrypointArguments ==
  << [name |-> "x", type |-> "string", default |-> None, significant |-> TRUE],
     [name |-> "y", type |-> "int", default |-> "1", significant |-> TRUE],
     [name |-> "v", type |-> "string", default |-> "0", significant |-> FALSE],
     [name |-> "w", type |-> "string", default |-> "@B:out", significant |-> TRUE] >>

\* The argument values of the calls: plain text, and references to files of
\* tasks A and B and to the argument lr of task A.
Values == {"1", "01", "@A:out", "@A:log", "@B:out", "@A:lr"}

\* The dicts of at most MaxArgs arguments of the entry point.
Dicts ==
  UNION {{a \in [1..n -> [k : {"x", "y", "v"}, v : Values]] :
            \A i, j \in 1..n : a[i].k = a[j].k => i = j} : n \in 0..MaxArgs}

\* _REFERENCE_PARSER on a value: the task and the resource of the match.
Match(v) ==
  CASE v = "@A:out" -> [ref |-> TRUE, task |-> "A", resource |-> "out"]
    [] v = "@A:log" -> [ref |-> TRUE, task |-> "A", resource |-> "log"]
    [] v = "@B:out" -> [ref |-> TRUE, task |-> "B", resource |-> "out"]
    [] v = "@A:lr" -> [ref |-> TRUE, task |-> "A", resource |-> "lr"]
    [] OTHER -> [ref |-> FALSE, task |-> None, resource |-> None]

\* Task.argument(name) of the referenced task: A was created with lr = 1.
TaskArgument(task, name) == IF task = "A" /\ name = "lr" THEN "1" ELSE None

\* task.identifier + "_" + resource
Joined(task, resource) ==
  CASE task = "A" /\ resource = "out" -> "A_out"
    [] task = "A" /\ resource = "log" -> "A_log"
    [] task = "B" /\ resource = "out" -> "B_out"
    [] OTHER -> "A_lr"

\* Whether replace(match) records a dependency for the value.
IsDependency(v) == Match(v).ref /\ TaskArgument(Match(v).task, Match(v).resource) = None

\* _REFERENCE_PARSER.sub(replace, v)
Substituted(v) ==
  LET m == Match(v) IN
  IF ~m.ref THEN v
  ELSE IF TaskArgument(m.task, m.resource) # None THEN TaskArgument(m.task, m.resource)
  ELSE Joined(m.task, m.resource)

\* A faulty collection, which keeps only the last resource of a task.
RECURSIVE CollectLast(_, _, _)
CollectLast(arguments, i, deps) ==
  IF i > Len(arguments) THEN deps
  ELSE LET v == arguments[i].v
           m == Match(v)
       IN  IF ~IsDependency(v) THEN CollectLast(arguments, i + 1, deps)
           ELSE CollectLast(arguments, i + 1,
                  Append(SelectSeq(deps, LAMBDA d : d.k # m.task),
                         [k |-> m.task, v |-> {m.resource}]))

\* dependencies.setdefault(task.identifier, set()).add(resource), for the
\* arguments from the i-th on.
RECURSIVE Collect(_, _, _)
Collect(arguments, i, deps) ==
  IF i > Len(arguments) THEN deps
  ELSE LET v == arguments[i].v
           m == Match(v)
       IN  IF ~IsDependency(v) THEN Collect(arguments, i + 1, deps)
           ELSE IF \E j \in 1..Len(deps) : deps[j].k = m.task
             THEN Collect(arguments, i + 1,
                    [j \in 1..Len(deps) |->
                       IF deps[j].k = m.task
                         THEN [k |-> m.task, v |-> deps[j].v \cup {m.resource}]
                         ELSE deps[j]])
             ELSE Collect(arguments, i + 1, Append(deps, [k |-> m.task, v |-> {m.resource}]))

\* _normalize_arguments: the arguments with their references replaced, and
\* the dependencies, each with the sorted list of its resources.
_normalize_arguments(arguments) ==
  LET deps == Collect(arguments, 1, << >>) IN
  [processed |-> [i \in 1..Len(arguments) |->
                    [k |-> arguments[i].k, v |-> Substituted(arguments[i].v)]],
   dependencies |-> [j \in 1..Len(deps) |-> [k |-> deps[j].k, v |-> sorted(deps[j].v)]]]

\* Argument.coerce raises ValueError for an int argument whose text is not
\* a number.
CoerceRaises(a, value) == value # None /\ a.type = "int" /\ value \notin {"0", "1", "01"}

\* Argument.coerce
coerce(a, value) ==
  IF value = None THEN JNone
  ELSE IF a.type = "int" THEN JInt(IF value = "0" THEN 0 ELSE 1)
  ELSE JStr(value)

\* Entrypoint.merge: the defaults of the declared arguments (all of them,
\* or the significant ones), updated with the given values of those
\* arguments; it raises when an argument is left without a value.
merge(arguments, insignificant) ==
  LET declared == SelectSeq(EntrypointArguments, LAMBDA a : insignificant \/ a.significant)
      given(a) == {i \in 1..Len(arguments) : arguments[i].k = a.name}
      value(a) == IF given(a) = {} THEN a.default
                  ELSE arguments[CHOOSE i \in given(a) : TRUE].v
  IN  [raised |-> \E i \in 1..Len(declared) :
                    value(declared[i]) = None \/ CoerceRaises(declared[i], value(declared[i])),
       arg |-> [i \in 1..Len(declared) |->
                 [k |-> declared[i].name, v |-> coerce(declared[i], value(declared[i]))]]]

\* str(value) of a merged argument.
str(j) == IF j.t = "int" THEN (IF j.n = 0 THEN "0" ELSE "1") ELSE j.s

\* Entrypoint.generate, for the command "run {{x}} {{y}} {{v}} {{w}}": the
\* words of the command after "run", each the text of the merged value of
\* its argument, insignificant ones included.
generate(arguments) ==
  LET arg == merge(arguments, TRUE).arg IN
  [i \in 1..Len(arg) |-> str(arg[i].v)]

\* create, lines 375-382: the task id of the call, or the exception of
\* generate or merge.
TaskId(arguments) ==
  LET n == _normalize_arguments(arguments)
      g == merge(n.processed, TRUE)
      m == merge(n.processed, FALSE)
  IN  IF g.raised \/ m.raised THEN [done |-> TRUE, raised |-> TRUE, sha1 |-> JNone]
      ELSE [done |-> TRUE, raised |-> FALSE,
            sha1 |-> dict_hash(JDict(
              << [k |-> "repository", v |-> JStr("repository")],
                 [k |-> "commit", v |-> JStr("commit")],
                 [k |-> "entrypoint", v |-> JStr("entrypoint")],
                 [k |-> "arguments", v |-> JDict(m.arg)],
                 [k |-> "dependencies", v |-> JDict(
                    [j \in 1..Len(n.dependencies) |->
                       [k |-> n.dependencies[j].k,
                        v |-> JList([i \in 1..Len(n.dependencies[j].v) |->
                                       JStr(n.dependencies[j].v[i])])]])] >>)).sha1]

\* The second dict has the pairs of the first, in whichever order.
Reordered(a, b) == Range(a) = Range(b)

\* Whether the entry point declares the argument insignificant.
Insignificant(k) ==
  \E i \in 1..Len(EntrypointArguments) :
     EntrypointArguments[i].name = k /\ ~EntrypointArguments[i].significant

\* The two dicts differ only in the values of insignificant arguments.
SameSignificant(a, b) ==
  /\ Len(a) = Len(b)
  /\ \A i \in 1..Len(a) : a[i].k = b[i].k /\ (a[i].v # b[i].v => Insignificant(a[i].k))

\* The keys of a dict.
Keys(a) == {a[i].k : i \in 1..Len(a)}

\* The second dict is the first with one more argument, which the first
\* omits and which has the default value the entry point declares for it.
DefaultSupplied(a, b) ==
  /\ Len(b) = Len(a) + 1
  /\ SubSeq(b, 1, Len(a)) = a
  /\ b[Len(b)].k \notin Keys(a)
  /\ \E i \in 1..Len(EntrypointArguments) :
        /\ EntrypointArguments[i].name = b[Len(b)].k
        /\ EntrypointArguments[i].default # None
        /\ EntrypointArguments[i].default = b[Len(b)].v

\* create computes the id of its arguments.
HashCreate ==
  /\ ~hid.done
  /\ hid' = TaskId(hargs)
  /\ UNCHANGED <<fileVars, storeVars, runVars, depVars, queueVars, hargs, hprev, auxVars>>

\* A second create call, with the arguments of the first reordered, or
\* with other values for the insignificant ones.
Resubmit ==
  /\ hid.done
  /\ ~hprev.id.done
  /\ \E a \in Dicts :
       /\ Reordered(hargs, a) \/ SameSignificant(hargs, a)
       /\ hargs' = a
  /\ hprev' = [args |-> hargs, id |-> hid]
  /\ hid' = NoId
  /\ UNCHANGED <<fileVars, storeVars, runVars, depVars, queueVars, auxVars>>

\* A second create call, which also passes an argument the first omitted,
\* with its default value.
SupplyDefault ==
  /\ hid.done
  /\ ~hprev.id.done
  /\ \E i \in 1..Len(EntrypointArguments) :
       LET a == EntrypointArguments[i] IN
       /\ a.default # None
       /\ a.name \notin Keys(hargs)
       /\ hargs' = Append(hargs, [k |-> a.name, v |-> a.default])
  /\ hprev' = [args |-> hargs, id |-> hid]
  /\ hid' = NoId
  /\ UNCHANGED <<fileVars, storeVars, runVars, depVars, queueVars, auxVars>>

(***************************************************************************)
(* TaskQueue and the worker threads of do_queue                            *)
(***************************************************************************)

\* Worker thread r calls queue.get() (at its start, or after a run).
QueueCall(r) ==
  /\ alive[ProcOf(r)]
  /\ pc[r] = "idle"
  /\ qres[r] \notin {"nil", "raise"}
  /\ pc' = [pc EXCEPT ![r] = "get"]
  /\ qres' = [qres EXCEPT ![r] = None]
  /\ rres' = [rres EXCEPT ![r] = None]
  /\ UNCHANGED <<fileVars, storeVars, rtask, rforce, rdeps, rgen, depVars, order, qopen, qcand, hashVars, auxVars>>

\* The queue's condition is free: no other thread of the process is inside
\* the with block of get.
QueueFree(r) == \A x \in Runners : (x # r /\ ProcOf(x) = ProcOf(r)) => pc[x] # "pick"

\* get, lines 510-513: under the queue's condition, a closed queue ends
\* the loop; else query() reads the status of every task of the catalog and
\* gives the pending ones by their created time.
QueueQuery(r) ==
  LET p == ProcOf(r) IN
  /\ pc[r] = "get"
  /\ QueueFree(r)
  /\ IF ~qopen[p]
       THEN /\ pc' = [pc EXCEPT ![r] = "idle"]
            /\ qres' = [qres EXCEPT ![r] = "nil"]
            /\ UNCHANGED <<meta, qcand, rgen>>
       ELSE /\ pc' = [pc EXCEPT ![r] = "pick"]
            /\ meta' = Loaded(p, tasks[p])
            /\ qcand' = [qcand EXCEPT ![r] =
                 SelectSeq(order, LAMBDA t : t \in tasks[p] /\ status(p, t) = "pending")]
            /\ rgen' = [rgen EXCEPT ![r] = gen[p]]
            /\ UNCHANGED qres
  /\ UNCHANGED <<fileVars, alive, tasks, gen, changed, rtask, rforce, rdeps, rres, depVars, order, qopen, hashVars, auxVars>>

\* The loop of get over the candidates, from the i-th: the first one for
\* which dependencies(task) is not None, with the statuses read on the way.
RECURSIVE Pick(_, _, _)
Pick(p, cands, i) ==
  IF i > Len(cands) THEN [task |-> None, read |-> {}]
  ELSE LET sc == Scan(p, TaskDependencies(cands[i]), 1, TRUE, << >>) IN
    IF ~sc.none /\ sc.ready THEN [task |-> cands[i], read |-> sc.read]
    ELSE LET rest == Pick(p, cands, i + 1)
         IN  [rest EXCEPT !.read = @ \cup sc.read]

\* get, lines 514-517, and the worker of do_queue: the first candidate
\* whose dependencies resolve is returned with them and the worker calls
\* task.run(dependencies=dependencies); without one, get goes to wait.
QueuePick(r) ==
  LET p == ProcOf(r)
      pk == Pick(p, qcand[r], 1)
  IN
  /\ pc[r] = "pick"
  /\ meta' = Loaded(p, pk.read)
  /\ qcand' = [qcand EXCEPT ![r] = << >>]
  /\ IF pk.task # None
       THEN /\ pc' = [pc EXCEPT ![r] = "run"]
            /\ rtask' = [rtask EXCEPT ![r] = pk.task]
            /\ rdeps' = [rdeps EXCEPT ![r] =
                 IF TaskDependencies(pk.task) = << >> THEN "empty" ELSE "store"]
            /\ qres' = [qres EXCEPT ![r] = "task"]
            /\ UNCHANGED rgen
       ELSE /\ pc' = [pc EXCEPT ![r] = "wait"]
            /\ rgen' = [rgen EXCEPT ![r] = 0]
            /\ UNCHANGED <<rtask, rdeps, qres>>
  /\ UNCHANGED <<fileVars, alive, tasks, gen, changed, rforce, rres, depVars, order, qopen, hashVars, auxVars>>

\* get, line 519: self._storage.wait(timeout=5) is evaluated outside the
\* with block; on a closed queue self._storage is None and the attribute
\* access raises, which ends the worker thread.
QueueEnterWait(r) ==
  /\ pc[r] = "wait"
  /\ IF qopen[ProcOf(r)]
       THEN /\ pc' = [pc EXCEPT ![r] = "poll"]
            /\ UNCHANGED qres
       ELSE /\ pc' = [pc EXCEPT ![r] = "idle"]
            /\ qres' = [qres EXCEPT ![r] = "raise"]
  /\ UNCHANGED <<fileVars, storeVars, rtask, rforce, rdeps, rgen, rres, depVars, order, qopen, qcand, hashVars, auxVars>>

\* A faulty wait, which reports no change whatever the watcher saw.
QueuePollTimeout(r) ==
  /\ pc[r] = "poll"
  /\ pc' = [pc EXCEPT ![r] = "get"]
  /\ UNCHANGED <<fileVars, storeVars, rtask, rforce, rdeps, rgen, rres, depVars, queueVars, hashVars, auxVars>>

\* LocalTasksStore.wait(timeout=5): true as soon as the watcher reports
\* changes, false after 5 s without any.
QueuePoll(r) ==
  LET p == ProcOf(r) IN
  /\ pc[r] = "poll"
  /\ IF changed[p]
       THEN /\ changed' = [changed EXCEPT ![p] = FALSE]
            /\ pc' = [pc EXCEPT ![r] = "update"]
       ELSE /\ pc' = [pc EXCEPT ![r] = "get"]
            /\ UNCHANGED changed
  /\ UNCHANGED <<fileVars, alive, tasks, meta, gen, rtask, rforce, rdeps, rgen, rres, depVars, queueVars, hashVars, auxVars>>

\* get, line 520: self._storage.update(), which raises the same way on a
\* closed queue.
QueueUpdate(r) ==
  LET p == ProcOf(r) IN
  /\ pc[r] = "update"
  /\ IF qopen[p]
       THEN /\ Rescan(p)
            /\ pc' = [pc EXCEPT ![r] = "get"]
            /\ UNCHANGED qres
       ELSE /\ pc' = [pc EXCEPT ![r] = "idle"]
            /\ qres' = [qres EXCEPT ![r] = "raise"]
            /\ UNCHANGED <<tasks, meta, gen, changed, tags>>
  /\ UNCHANGED <<fileVars, alive, rtask, rforce, rdeps, rgen, rres, depVars, order, qopen, qcand, hashVars, tagfile, gres, entries, sideVars>>

\* TaskQueue.close, by the main thread of do_queue.
close(p) ==
  /\ alive[p]
  /\ qopen[p]
  /\ \A x \in Runners : ProcOf(x) = p => pc[x] # "pick"
  /\ qopen' = [qopen EXCEPT ![p] = FALSE]
  /\ UNCHANGED <<fileVars, storeVars, runVars, depVars, order, qcand, qres, hashVars, auxVars>>

\* TaskQueue.get by worker thread r.
QueueGet(r) ==
  \/ QueueCall(r)
  \/ QueueQuery(r)
  \/ QueuePick(r)
  \/ QueueEnterWait(r)
  \/ QueuePoll(r)
  \/ QueueUpdate(r)

\* The run a worker makes of the task get gave it.
Work(r) ==
  \/ \E found \in BOOLEAN : RunLocked(r, found)
  \/ \E outcome \in {"ok", "fail", "raise"} : RunSetup(r, outcome)
  \/ RunStatusRunning(r)
  \/ RunAcquire(r)
  \/ \E outcome \in {"zero", "nonzero", "raise"} : RunChild(r, outcome)

(***************************************************************************)
(* The whole system, and the parts of it that are model-checked.  Each     *)
(* part starts from Init (narrowed to the tasks it uses) and takes a       *)
(* subset of the steps of Next, so each of its behaviours is a behaviour   *)
(* of Spec.                                                                *)
(***************************************************************************)
Next ==
  \/ \E p \in Procs : Startup(p)
  \/ \E p \in Procs : update(p)
  \/ \E p \in Procs : Kill(p)
  \/ \E p \in Procs, t \in Tasks, exist_ok \in BOOLEAN : create(p, t, exist_ok)
  \/ \E r \in Runners : run(r, Tasks, BOOLEAN, {"empty", "store"})
  \/ \E p \in Procs, t \in Tasks : ReadStatus(p, t)
  \/ \E p \in Procs, t \in Tasks : restore(p, t)
  \/ \E p \in Procs, t \in Tasks, clear \in BOOLEAN : reset(p, t, clear)
  \/ \E p \in Procs, t \in Tasks, same \in BOOLEAN : set(p, t, same)
  \/ \E t \in Tasks : Archive(t)
  \/ \E p \in Procs : dependencies(p, Tasks)
  \/ \E r \in Runners : QueueGet(r)
  \/ \E p \in Procs : close(p)
  \/ HashCreate
  \/ Resubmit
  \/ SupplyDefault
  \/ \E p \in Procs, t \in Tasks, g \in TagNames : tag(p, t, g)
  \/ \E p \in Procs, t \in Tasks : remove(p, t)
  \/ \E p \in Procs, x \in Identifiers : StoreGet(p, x)
  \/ \E p \in Procs : StoreWait(p, Timeouts)
  \/ \E line \in Lines, outcomes \in Outcomes : MuxCall(line, outcomes)
  \/ LogStart
  \/ \E b \in Bytes : ChildWrite(b)
  \/ ChildExit
  \/ ReadLine
  \/ \E line \in StepLines : StepsPush(line)
  \/ \E c \in Procs : setup(c)

Spec == Init /\ [][Next]_vars

\* Dependency resolution: process 1 calls dependencies(C, wait) while its
\* own worker runs A and another process runs B and resets, reads and
\* archives A and B.
InitDeps == Init /\ disk["C"] # Absent

SpecDeps == InitDeps /\ [][
  \/ \E p \in Procs : Startup(p)
  \/ run(1, {"A"}, {FALSE}, {"empty"})
  \/ run(2, {"B"}, {FALSE}, {"empty"})
  \/ dependencies(1, {"C"})
  \/ \E t \in {"A", "B"} : ReadStatus(2, t)
  \/ \E t \in {"A", "B"} : reset(2, t, FALSE)
  \/ \E t \in {"A", "B"} : Archive(t)
  ]_vars

\* The same, where A and B are only run (a status never goes back), and
\* the thread inside dependencies() keeps running: wait() polls the watcher
\* every 0.1 s and the pass after it is straight-line code.
SpecWait == InitDeps /\ [][
  \/ \E p \in Procs : Startup(p)
  \/ run(1, {"A"}, {FALSE}, {"empty"})
  \/ run(2, {"B"}, {FALSE}, {"empty"})
  \/ dependencies(1, {"C"})
  ]_vars /\ WF_vars(DepScan(1)) /\ WF_vars(DepWait(1))

\* The lifecycle: the worker of process 1 runs every task, forced or not,
\* with or without its predecessors; the worker of process 2 runs C; tasks
\* are archived.
InitRun == Init /\ Present = Tasks

SpecRun == InitRun /\ [][
  \/ \E p \in Procs : Startup(p)
  \/ run(1, Tasks, BOOLEAN, {"empty", "store"})
  \/ run(2, {"C"}, {FALSE}, {"empty", "store"})
  \/ \E t \in Tasks : Archive(t)
  ]_vars

\* One task, two processes that start, are killed and start again, run the
\* task without force, and restore, create, reset, set and archive it.
InitCrash == Init /\ disk["B"] = Absent /\ disk["C"] = Absent

SpecCrash == InitCrash /\ [][
  \/ \E p \in Procs : Startup(p)
  \/ update(1)
  \/ \E p \in Procs : Kill(p)
  \/ create(2, "A", TRUE)
  \/ \E r \in {1, 2} : run(r, {"A"}, {FALSE}, {"empty"})
  \/ \E p \in Procs : restore(p, "A")
  \/ \E p \in Procs : reset(p, "A", FALSE)
  \/ \E p \in Procs, same \in BOOLEAN : set(p, "A", same)
  \/ Archive("A")
  ]_vars

(***************************************************************************)
(* Dependency resolution (C1 - C3).  What a pass of dependencies() reads   *)
(* is the status its own store's task objects report: the cached metadata, *)
(* or the file when nothing is cached yet.                                 *)
(***************************************************************************)
DepsOf(p) == Range(TaskDependencies(dtask[p]))

Returns(p) == dpc[p] = "scan" /\ dpc'[p] = "done"

AllComplete(p) == \A d \in DepsOf(p) : get(p, d) # None /\ status(p, d) = "complete"

SomeLost(p) == \E d \in DepsOf(p) : get(p, d) = None \/ status(p, d) = "failed"

C2_Blocked ==
  /\ dpc[1] \in {"scan", "wait"} /\ dwait[1]
  /\ \A d \in DepsOf(1) : disk[d] = "complete"

C2_EventuallyReturns == ~<>[]C2_Blocked

LifecycleEdges ==
  { <<"pending", "preparing">>, <<"preparing", "running">>, <<"running", "complete">>,
    <<"preparing", "failed">>, <<"running", "failed">> }

PastStepOne == {"setup", "running", "runlock", "child"}

\* A step of invocation r that changes the status of its task.
RunChanges(r) ==
  /\ pc[r] # "idle" /\ pc'[r] # pc[r] /\ alive'[ProcOf(r)]
  /\ disk'[rtask[r]] # disk[rtask[r]]

\* What invocation r wrote last, or, before its first write, the status it
\* loads under the task lock.
RunWrote(r) ==
  CASE pc[r] = "run" -> disk[rtask[r]]
    [] pc[r] \in {"setup", "running"} -> "preparing"
    [] OTHER -> "running"

C5_OneRunPastStepOne ==
  \A r1, r2 \in Runners :
     (r1 # r2 /\ pc[r1] \in PastStepOne /\ pc[r2] \in PastStepOne) => rtask[r1] # rtask[r2]

(***************************************************************************)
(* Crash recovery (C6 - C8)                                                *)
(***************************************************************************)
NoLiveRun(t) == \A r \in Runners : pc[r] = "idle" \/ rtask[r] # t

\* C6: restore() of a task whose persisted status is running, whose
\* runlock nobody holds and which no invocation of run is working on
\* leaves the persisted status pending.
C6_OrphanBecomesPending ==
  [][\A p \in Procs, t \in Tasks :
        (restore(p, t) /\ disk[t] = "running" /\ runlock[t].proc = 0 /\ NoLiveRun(t))
           => disk'[t] = "pending"]_vars

\* C7: restore() never changes the status of a task that a live invocation
\* of run has set to running and not yet finished, whether or not that
\* invocation has the runlock yet.
C7_LiveRunLeftAlone ==
  [][\A p \in Procs, t \in Tasks :
        (restore(p, t) /\ disk[t] = "running"
           /\ \E r \in Runners : rtask[r] = t /\ pc[r] \in {"runlock", "child"})
           => disk'[t] = disk[t]]_vars

\* C8: when a store starts while a task that no invocation of run is
\* working on is persisted as running, the task is pending after the
\* startup if and only if nobody holds its runlock.
C8_StartupRestores ==
  [][\A p \in Procs, t \in Tasks :
        (Startup(p) /\ disk[t] = "running" /\ NoLiveRun(t))
           => (disk'[t] = "pending" <=> runlock[t].proc = 0)]_vars

(***************************************************************************)
(* Terminal statuses (C9, C10)                                             *)
(***************************************************************************)
\* C9: the status of a complete task is changed by reset only (and by the
\* external action that archives it), not by run, restore, set, create or
\* update.
C9_CompleteUntilReset ==
  [][\A t \in Tasks : (disk[t] = "complete" /\ disk'[t] # "complete")
        => (Archive(t) \/ \E p \in Procs, clear \in BOOLEAN : reset(p, t, clear))]_vars

\* C10: no step of run or restore changes the status of an archived task.
C10_ArchivedStays ==
  [][\A t \in Tasks : (disk[t] = "archived" /\ disk'[t] # "archived")
        => \E p \in Procs, clear \in BOOLEAN : reset(p, t, clear) \/ create(p, t, TRUE)]_vars

(***************************************************************************)
(* The steps of run (C11 - C13)                                            *)
(***************************************************************************)
\* Invocation r leaves the section of run under the task lock.
LeavesLocked(r) == pc[r] = "run" /\ pc'[r] # "run" /\ alive'[ProcOf(r)]

\* C11: run on a task whose status is complete or failed (not forced) or
\* running returns true, false and true, without writing a meta.json (so
\* the status of every task stays), without touching a runlock and without
\* going on to the environment or the child.
C11_StepOneNoWork ==
  [][\A r \in Runners :
        (LeavesLocked(r) /\ (disk[rtask[r]] = "running"
                               \/ (disk[rtask[r]] \in {"complete", "failed"} /\ ~rforce[r])))
        => /\ pc'[r] = "idle"
           /\ rres'[r] = (IF disk[rtask[r]] = "failed" THEN "false" ELSE "true")
           /\ UNCHANGED <<disk, lockfile, runlock, changed>>]_vars

\* A run of C by process 2 has loaded the status running, which the run of
\* process 1 wrote, and has returned true.
C11_Witness ==
  /\ rres[2] = "true" /\ pc[2] = "idle" /\ meta[2]["C"] = "running"
  /\ pc[1] = "child" /\ rtask[1] = "C" /\ disk["C"] = "running"

\* Some declared dependency of the task of r is not among the Task objects
\* passed to run, or the object passed for it does not report complete.
DependencyViolation(r) ==
  \E d \in Range(TaskDependencies(rtask[r])) :
     rdeps[r] = "empty" \/ status(ProcOf(r), d) # "complete"

C13_RunEndsFinal ==
  [][\A r \in Runners :
        (pc[r] \in PastStepOne /\ pc'[r] = "idle" /\ alive'[ProcOf(r)])
        => disk'[rtask[r]] \in {"complete", "failed"}]_vars

(***************************************************************************)
(* The worker queue (C14 - C16)                                            *)
(***************************************************************************)
\* do_queue with two workers in process 1, over the three tasks; the queue
\* is closed at some point.
SpecQueue == InitRun /\ [][
  \/ Startup(1)
  \/ \E r \in {1, 3} : QueueGet(r)
  \/ \E r \in {1, 3} : Work(r)
  \/ close(1)
  ]_vars

\* do_queue with one worker in process 1, which starts with A only, while
\* process 2 creates B and C and runs B.  The worker thread keeps
\* running: get polls the watcher every 0.1 s, and its other steps and
\* the steps of run up to the child are straight-line code.
InitFeed == Init /\ disk["A"] # Absent /\ disk["B"] = Absent /\ disk["C"] = Absent

SpecFeed == InitFeed /\ [][
  \/ \E p \in Procs : Startup(p)
  \/ QueueGet(1)
  \/ Work(1)
  \/ run(2, {"B"}, {FALSE}, {"empty"})
  \/ \E t \in {"B", "C"} : create(2, t, TRUE)
  ]_vars /\ WF_vars(QueueGet(1))

\* Worker r's get() returns a task (and the worker goes on to run it).
Dispatches(r) == pc[r] = "pick" /\ pc'[r] = "run"

\* Task t is pending and all its predecessors are complete, as process p's
\* store reports them.
ReadyIn(p, t) ==
  /\ t \in tasks[p] /\ status(p, t) = "pending"
  /\ \A d \in Range(TaskDependencies(t)) : get(p, d) # None /\ status(p, d) = "complete"

\* C14: when get() returns a task, the task is pending (in its meta.json
\* or as the store's object reports it), every predecessor of it is
\* complete, and no ready pending task was created before it.
C14_DispatchOrder ==
  [][\A r \in Runners : Dispatches(r) =>
        LET p == ProcOf(r)
            t == rtask'[r]
        IN  /\ disk[t] = "pending" \/ status(p, t) = "pending"
            /\ \A d \in Range(TaskDependencies(t)) : status(p, d) = "complete"
            /\ \A i, j \in 1..Len(order) :
                  (order[j] = t /\ i < j) => ~ReadyIn(p, order[i])]_vars

\* C38: get() does not return to a worker a task that it has returned to
\* another worker whose run of it has not ended.
C38_NoDoubleDispatch ==
  [][\A r \in Runners : Dispatches(r) =>
        \A u \in Runners \ {r} : ~(pc[u] \in HoldsTask \ {"pick"} /\ rtask[u] = rtask'[r])]_vars

\* Some pending task has all its predecessors complete, on disk.
SomeReady ==
  \E t \in Tasks : /\ disk[t] = "pending"
                    /\ \A d \in Range(TaskDependencies(t)) : disk[d] = "complete"

\* Worker 1 is inside get() on an open queue.
GetBlocked == pc[1] \in {"get", "pick", "wait", "poll", "update"} /\ qopen[1]

C16_CloseReleases == \A r \in Runners : qres[r] # "raise"

(***************************************************************************)
(* Task creation (C17, C18)                                                *)
(***************************************************************************)

\* task_create by two processes, each with its own store, for the inputs
\* of A and of B, with and without exist_ok, while the worker of process 1
\* runs the tasks.
InitCreate == Init /\ disk["C"] = Absent

SpecCreate == InitCreate /\ [][
  \/ \E p \in Procs : Startup(p)
  \/ \E p \in Procs, t \in {"A", "B"}, exist_ok \in BOOLEAN : create(p, t, exist_ok)
  \/ run(1, {"A", "B"}, {FALSE}, {"empty"})
  ]_vars

C18_CreateNeverOverwrites ==
  [][\A p \in Procs, t \in Tasks, exist_ok \in BOOLEAN :
        (disk[t] # Absent /\ create(p, t, exist_ok)) =>
           (disk'[t] = disk[t] /\ order' = order)]_vars

(***************************************************************************)
(* The task id (C19, C20)                                                  *)
(***************************************************************************)

\* Two create calls on a store that has A and B, the first with any
\* arguments of the entry point.
InitHash ==
  /\ InitTasks /\ Present = {"A", "B"}
  /\ hargs \in Dicts /\ hid = NoId /\ hprev = NoPrev
  /\ InitAux

SpecHash == InitHash /\ [][HashCreate \/ Resubmit \/ SupplyDefault]_vars

\* Both calls have computed their ids.
BothHashed == hprev.id.done /\ hid.done

\* C19: two calls whose arguments are the same pairs in a different order
\* (so that the dependency references are met in a different order) compute
\* the same id.
C19_HashStable == (BothHashed /\ Reordered(hprev.args, hargs)) => hid = hprev.id

\* Two calls with the same arguments in another order, which meet the tasks
\* they refer to in another order, and get an id.
C19_Witness ==
  /\ BothHashed /\ ~hid.raised
  /\ Reordered(hprev.args, hargs) /\ hprev.args # hargs
  /\ Len(_normalize_arguments(hargs).dependencies) = 2
  /\ _normalize_arguments(hargs).dependencies # _normalize_arguments(hprev.args).dependencies

\* C20: two calls whose arguments differ only in the values of the
\* arguments declared insignificant compute the same id.
C20_InsignificantIgnored == (BothHashed /\ SameSignificant(hprev.args, hargs)) => hid = hprev.id

\* C21: a call that gets an id and omits an argument with a default, and
\* the call that passes the default value for it, compute the same id and
\* the same command.
C21_DefaultCollapse ==
  (BothHashed /\ ~hprev.id.raised /\ DefaultSupplied(hprev.args, hargs)) =>
     /\ hid = hprev.id
     /\ generate(_normalize_arguments(hargs).processed)
          = generate(_normalize_arguments(hprev.args).processed)

\* C22: in the result of _normalize_arguments a value without a reference
\* is kept; a reference to an argument of the task is replaced by the
\* argument's value and adds no edge; any other reference is replaced by
\* <id>_<name> and its edge is in the map; the map has no other edge, has
\* each task once, and each list is sorted without duplicates.
C22_RefOrFile ==
  hid.done =>
    LET n == _normalize_arguments(hargs)
        deps == n.dependencies
        Edge(t, r) == \E j \in 1..Len(deps) : deps[j].k = t /\ r \in Range(deps[j].v)
    IN  /\ \A i \in 1..Len(hargs) :
             LET v == hargs[i].v
                 m == Match(v)
             IN  /\ n.processed[i].k = hargs[i].k
                 /\ IF ~m.ref THEN n.processed[i].v = v
                    ELSE IF TaskArgument(m.task, m.resource) # None
                      THEN /\ n.processed[i].v = TaskArgument(m.task, m.resource)
                           /\ ~Edge(m.task, m.resource)
                      ELSE /\ n.processed[i].v = Joined(m.task, m.resource)
                           /\ Edge(m.task, m.resource)
        /\ \A j \in 1..Len(deps) : \A r \in Range(deps[j].v) :
             \E i \in 1..Len(hargs) :
                /\ IsDependency(hargs[i].v)
                /\ Match(hargs[i].v).task = deps[j].k
                /\ Match(hargs[i].v).resource = r
        /\ \A j, l \in 1..Len(deps) : deps[j].k = deps[l].k => j = l
        /\ \A j \in 1..Len(deps) : \A a, b \in 1..Len(deps[j].v) :
             a < b => Before(deps[j].v[a], deps[j].v[b])

\* A call that refers to two files of A and to A's argument lr.
C22_Witness ==
  /\ hid.done /\ ~hid.raised
  /\ \E i \in 1..Len(hargs) : hargs[i].v = "@A:lr"
  /\ Len(_normalize_arguments(hargs).dependencies) = 1
  /\ _normalize_arguments(hargs).dependencies[1].v = <<"log", "out">>

(***************************************************************************)
(* Lookup: one store on a root with all three tasks tags and removes       *)
(* tasks and looks identifiers up.                                         *)
(***************************************************************************)
SpecLookup == InitRun /\ [][
  \/ Startup(1)
  \/ \E t \in Tasks, g \in TagNames : tag(1, t, g)
  \/ \E t \in Tasks : remove(1, t)
  \/ \E x \in Identifiers : StoreGet(1, x)
  ]_vars

(***************************************************************************)
(* Tags and removal: two stores on one root with all three tasks tag and   *)
(* remove tasks; store 1 creates A again.                                  *)
(***************************************************************************)
SpecTags == InitRun /\ [][
  \/ \E p \in Procs : Startup(p)
  \/ \E p \in Procs, t \in Tasks, g \in {"a", "best"} : tag(p, t, g)
  \/ \E p \in Procs, t \in Tasks : remove(p, t)
  \/ create(1, "A", TRUE)
  ]_vars

\* C23: get(identifier) returns the task of the tag of that name; else the
\* task of that id; else the only task whose id starts with the identifier;
\* and None when there is no such task or more than one.
C23_Resolution ==
  \* What the resolution order gives in the catalog and the tag map of
  \* store p.
  [][LET Resolved(p, x) ==
           IF x \in TagNames /\ tags[p][x] \in tasks[p] THEN tags[p][x]
           ELSE IF x \in tasks[p] THEN x
           ELSE IF \E k \in tasks[p] : search(p, x) = {k}
             THEN CHOOSE k \in tasks[p] : search(p, x) = {k}
           ELSE None
     IN  \A x \in Identifiers : StoreGet(1, x) => gres'[1].res = Resolved(1, x)]_vars

(***************************************************************************)
(* Reloads: one store tags its tasks, reloads single tasks and rescans.    *)
(***************************************************************************)
SpecUpdate == InitRun /\ [][
  \/ Startup(1)
  \/ update(1)
  \/ \E t \in Tasks, g \in TagNames : tag(1, t, g)
  \/ \E x \in Identifiers : updateOne(1, x)
  ]_vars

\* C36: update(identifier) leaves the keys of the catalog and the tag map
\* as they are, for an id of the catalog and for any other identifier.
C36_UpdateOne ==
  [][\A x \in Identifiers :
       updateOne(1, x) => tasks'[1] = tasks[1] /\ tags'[1] = tags[1]]_vars

\* C40: every entry of the tag map of store 1 names a task of its catalog
\* and has a tag file that holds the id of that task, and the tag map is
\* the one a full rescan would build.
C40_TagMapIntegrity ==
  alive[1] =>
    /\ \A g \in TagNames :
         tags[1][g] # None => tags[1][g] \in tasks[1] /\ tagfile[g] = tags[1][g]
    /\ tags[1] = ScannedTags

\* C24: after tag(T, g) the file g holds the id of T and get(g) returns T;
\* after remove(T) no tag file holds the id of T, the directory of T is gone,
\* T is not in the catalog, get of its id returns None, and the other tasks
\* and the tag files of other tasks are as before.
C24_TagAndRemove ==
  [][\A p \in Procs, t \in Tasks :
       /\ \A g \in TagNames : tag(p, t, g) => tagfile'[g] = t /\ get(p, g)' = t
       /\ (t \in tasks[p] /\ remove(p, t)) =>
            /\ \A g \in TagNames : tagfile'[g] # t
            /\ disk'[t] = Absent
            /\ t \notin tasks'[p]
            /\ get(p, t)' = None
            /\ \A u \in Tasks \ {t} : disk'[u] = disk[u] /\ (u \in tasks'[p] <=> u \in tasks[p])
            /\ \A g \in TagNames : tagfile[g] # t => tagfile'[g] = tagfile[g]]_vars

(***************************************************************************)
(* wait: store 1 waits with and without a timeout while store 2 creates    *)
(* and removes the task C.                                                 *)
(***************************************************************************)
SpecPoll == InitCreate /\ [][
  \/ \E p \in Procs : Startup(p)
  \/ StoreWait(1, Timeouts)
  \/ create(2, "C", TRUE)
  \/ remove(2, "C")
  ]_vars

\* C25 as stated, for timeouts of 0 and less: the call polls the watcher
\* once and never sleeps.
C25_PollOnce ==
  \A p \in Procs : wt[p].timeout <= 0 => wt[p].polls <= 1 /\ wt[p].pc # "sleep"

\* C25, amended: wait returns true from a poll at which the watcher reports
\* a change and false only from a poll without a change at which a timeout
\* above 0 has elapsed; with such a timeout it sleeps only while the timeout
\* has not elapsed, so it polls at most timeout + 1 times; with a timeout of
\* 0 or less it never returns false.
C25_WaitTermination ==
  \A p \in Procs :
    /\ wt[p].res = "true" => wt[p].saw /\ wt[p].pc = "idle"
    /\ wt[p].res = "false" =>
         /\ ~wt[p].saw /\ wt[p].pc = "idle"
         /\ wt[p].timeout > 0 /\ wt[p].elapsed >= wt[p].timeout
    /\ wt[p].timeout > 0 =>
         /\ wt[p].polls <= wt[p].timeout + 1
         /\ wt[p].pc = "sleep" => wt[p].elapsed < wt[p].timeout
    /\ (wt[p].polls > 0 /\ wt[p].res = None) => wt[p].pc \in {"sleep", "poll"} /\ ~wt[p].saw

\* A call with a timeout of 2 returned false from its third poll.
C25_Witness ==
  wt[1].res = "false" /\ wt[1].timeout = 2 /\ wt[1].polls = 3

(***************************************************************************)
(* The output tap alone: lines and None are pushed to one Multiplexer      *)
(* whose sub-sinks may raise.                                              *)
(***************************************************************************)
SpecMux == InitRun /\ [][\E line \in Lines, outcomes \in Outcomes : MuxCall(line, outcomes)]_vars

\* C26: for every item pushed, a line or the terminal None, every sub-sink
\* is called with it, in the order of the sub-sinks and also after one of
\* them raised; each failure is logged and none reaches the caller.
C26_TapIsolation ==
  /\ ~mux.raised
  /\ Len(mux.calls) = Len(Sinks) * Len(mux.pushed)
  /\ \A k \in 1..Len(mux.pushed), i \in 1..Len(Sinks) :
       LET c == mux.calls[(k - 1) * Len(Sinks) + i]
       IN  c.sink = Sinks[i] /\ c.line = mux.pushed[k]
  /\ mux.logged = Cardinality({k \in 1..Len(mux.calls) : ~mux.calls[k].ok})

\* The first sub-sink raised on a line and on the terminal None, and the
\* sub-sinks after it were called both times.
C26_Witness ==
  /\ Len(mux.pushed) = 2 /\ mux.pushed[1] = "a" /\ mux.pushed[2] = None
  /\ ~mux.calls[1].ok /\ ~mux.calls[4].ok
  /\ Len(mux.calls) = 6 /\ mux.calls[6].sink = "extractor" /\ mux.calls[6].line = None

(***************************************************************************)
(* The log of one run: a child writes bytes and exits while _run_command   *)
(* reads its output line by line into output.txt.                          *)
(***************************************************************************)
SpecLog == InitRun /\ [][
  \/ LogStart
  \/ \E b \in Bytes : ChildWrite(b)
  \/ ChildExit
  \/ ReadLine
  ]_vars

\* C27: once the child has exited and _run_command has left its loop, the
\* terminal None has closed output.txt and the file holds the bytes the
\* child wrote, all of them, once and in their order.
C27_RoundTrip ==
  (log.child = "exited" /\ log.pc \in {"done", "raised"}) =>
     /\ log.pc = "done"
     /\ ~log.handle
     /\ log.out = log.written

\* C34: what output.txt held when a run started is a prefix of what it
\* holds during and after the run.
C34_AppendOnly ==
  /\ Len(log.prev) <= Len(log.out)
  /\ SubSeq(log.out, 1, Len(log.prev)) = log.prev

(***************************************************************************)
(* The stepped series alone: lines are pushed to one handler.              *)
(***************************************************************************)
SpecSteps == InitRun /\ [][\E line \in StepLines : StepsPush(line)]_vars

\* The handler after the first k of the lines pushed.
RECURSIVE After(_)
After(k) ==
  IF k = 0 THEN NoSteps
  ELSE [callback(After(k - 1), steps.lines[k]) EXCEPT !.lines = Append(@, steps.lines[k])]

Example ==
  <<[kind |-> "step", text |-> "1"], [kind |-> "value", text |-> "0.5"],
    [kind |-> "step", text |-> "2"], [kind |-> "value", text |-> "0.2"]>>

\* C28 as stated, for the offset: once a step line was pushed, offset is the
\* number of the first step line.
C28_OffsetIsFirstStep ==
  LET StepLinesOf == SelectSeq(steps.lines, LAMBDA l : l.kind = "step")
  IN  StepLinesOf # << >> => steps.offset = int(StepLinesOf[1].text)

\* C28, amended: after any sequence of lines, offset is the step of the
\* first step line or value line pushed (0 for a value line) and does not
\* change; the step is never lower than before; the list has
\* step - offset + 1 entries; the writer gets one snapshot with the offset
\* and the list for every line that lengthens the list and for the terminal
\* None, and none for other lines; the lines step 1, loss 0.5, step 2,
\* loss 0.2 give offset 1 and the list [{loss 0.5}, {loss 0.2}].
C28_StepsInvariants ==
  \* The lines that make a step, step lines and value lines, and the step
  \* of the first of them: the number of a step line, 0 for a value line.
  LET Stepping(lines) == SelectSeq(lines, LAMBDA l : l.kind \in {"step", "value"})
      Anchor(lines) ==
        IF Stepping(lines)[1].kind = "step" THEN int(Stepping(lines)[1].text) ELSE 0
  IN
  /\ steps = After(Len(steps.lines))
  /\ \A k \in 1..Len(steps.lines) :
       LET b == After(k - 1)
           a == After(k)
           line == steps.lines[k]
       IN  /\ IF Stepping(a.lines) = << >>
                THEN a.step = NoStep /\ a.offset = NoStep /\ a.data = << >>
                ELSE /\ a.offset = Anchor(a.lines)
                     /\ a.step >= a.offset
                     /\ Len(a.data) = a.step - a.offset + 1
           /\ b.step # NoStep => a.step >= b.step /\ a.offset = b.offset
           /\ IF Len(a.data) > Len(b.data) \/ line.kind = "nil"
                THEN /\ Len(a.emitted) = Len(b.emitted) + 1
                     /\ SubSeq(a.emitted, 1, Len(b.emitted)) = b.emitted
                     /\ a.emitted[Len(a.emitted)].type = "steps"
                     /\ a.emitted[Len(a.emitted)].offset = a.offset
                     /\ Len(a.emitted[Len(a.emitted)].data) = Len(a.data)
                     /\ line.kind = "nil" => a.emitted[Len(a.emitted)] = Snapshot(a)
                ELSE a.emitted = b.emitted
  /\ steps.lines = Example =>
       /\ steps.offset = 1
       /\ Render(steps) = <<[loss |-> 5], [loss |-> 2]>>

\* C39: a value line changes the mapping of the current step only: the
\* mapping of every other step is what it was, and empty when the step is
\* new.
C39_ValueFrame ==
  [][\A line \in StepLines :
       (StepsPush(line) /\ line.kind = "value") =>
          \A i \in 1..Len(steps'.data) :
            i # steps'.step - steps'.offset + 1 =>
              Render(steps')[i] = IF i <= Len(steps.data) THEN Render(steps)[i] ELSE EmptyDict]_vars

\* The four lines of the example were pushed: two snapshots were emitted.
C28_Witness ==
  /\ steps.lines = Example
  /\ steps.offset = 1 /\ steps.step = 2
  /\ Len(steps.emitted) = 2

(***************************************************************************)
(* Environment setup alone: two processes call setup() for one environment *)
(* id, again and again.                                                    *)
(***************************************************************************)
SpecEnv == InitRun /\ [][\E c \in Procs : setup(c)]_vars

\* C29: a caller that got True from setup() has an environment that is built
\* and stays; the directory changes, and is removed, only under the
\* environments lock, so while a caller is in its build no other caller
\* touches it.
C29_SetupSafe ==
  /\ \A c \in Procs : env.res[c] = "true" => env.dir = "built"
  /\ \A c \in Procs : env.pc[c] = "steps" => env.dir = "conda"
  /\ \A c \in Procs : env.res[c] # "raise"

(***************************************************************************)
(* reset: the tasks are there, and earlier runs left files, links and      *)
(* sub-directories in the directory of A.  Store 1 runs A and both stores  *)
(* read its status and reset it, with and without clear.                   *)
(***************************************************************************)
InitReset ==
  /\ InitTasks /\ Present = Tasks
  /\ hargs = << >> /\ hid = NoId /\ hprev = NoPrev
  /\ InitSide
  \* The kinds of entries the directory has beside .meta: regular files,
  \* symbolic links, sub-directories.
  /\ \E kinds \in SUBSET {"file", "link", "dir"} :
       entries = [t \in Tasks |-> IF t = "A" THEN kinds ELSE {}]

SpecReset == InitReset /\ [][
  \/ \E p \in Procs : Startup(p)
  \/ run(1, {"A"}, {FALSE}, {"empty"})
  \/ \E p \in Procs : ReadStatus(p, "A")
  \/ \E p \in Procs, clear \in BOOLEAN : reset(p, "A", clear)
  ]_vars

\* What reset(clear) leaves of task t: the status pending in meta.json,
\* which is kept; no entry beside .meta with clear, the same entries
\* without; the directories of the other tasks as they were.
\* C30: a step of reset, from any status, is a step of a reset(clear) that
\* leaves the status pending and .meta in place, removes every other entry
\* of the task directory when clear is true, and removes none when it is
\* false.
C30_Reset ==
  [][LET ResetDone(t, clear) ==
           /\ disk'[t] = "pending"
           /\ entries'[t] = IF clear THEN {} ELSE entries[t]
           /\ \A u \in Tasks \ {t} : entries'[u] = entries[u] /\ disk'[u] = disk[u]
     IN  \A p \in Procs, t \in Tasks :
           (\E clear \in BOOLEAN : reset(p, t, clear))
             => \E clear \in BOOLEAN : reset(p, t, clear) /\ ResetDone(t, clear)]_vars

(***************************************************************************)
(* The locks alone: the runner of store 1 runs the task, the main thread   *)
(* of store 1 and the one of store 2 call the other operations.            *)
(***************************************************************************)
SpecLocks == InitRun /\ [][
  \/ LockStep(1, {"run"})
  \/ LockStep(2, {"restore", "reset", "set", "remove"})
  \/ LockStep(3, {"set", "create"})
  ]_vars

\* C32: a thread takes its locks in the order monitor, store file lock,
\* metadata lock, runlock, cache locks: no lock it holds was taken, for
\* the first time, after a lock that comes later in that order.
C32_LockOrder ==
  LET Rank(l) == CASE l = "monitor" -> 1 [] l = "store" -> 2 [] l = "task" -> 3
                   [] l = "runlock" -> 4 [] OTHER -> 5
  IN  \A r \in Runners : \A i, j \in 1..Len(lk.held[r]) :
        (i < j /\ \A k \in 1..(j - 1) : lk.held[r][k] # lk.held[r][j])
          => Rank(lk.held[r][i]) <= Rank(lk.held[r][j])

SpecDoc == InitRun /\ [][Tick \/ \E p \in Procs : Meta(p)]_vars

\* C31: every document written has created <= updated; a write to the
\* meta.json of a task does not change created and does not lower updated.
C31_Timestamps ==
  [][(~doc'.partial /\ doc'.file.has)
       => /\ doc'.file.created <= doc'.file.updated
          /\ doc.file.has => /\ doc'.file.created = doc.file.created
                              /\ doc'.file.updated >= doc.file.updated]_vars

\* C35: no read of meta.json finds a file that is not a whole document.
C35_AtomicWrites == \A p \in Procs : doc.seen[p] # "partial"

\* C37: a status write keeps the properties meta.json holds.
C37_StatusKeepsProperties ==
  [][(doc.wr.by # 0 /\ doc.wr.locked /\ ~doc'.partial /\ doc'.file.status # doc.file.status)
       => doc.file.props \subseteq doc'.file.props]_vars
====
